---- MODULE Spec2Model ----
(***************************************************************************)
(* Target resolution and context lifecycle of the chrome CLI               *)
(* (github.com/nathants/chrome, package lib).                              *)
(*                                                                         *)
(* Go strings whose characters the code inspects (URLs, selectors, the     *)
(* CHROME_TARGET variable) are sequences of one-character strings, so that *)
(* strings.HasPrefix, strings.ToLower and strings.TrimSpace are computed   *)
(* character by character.  Target ids are opaque and stay TLA+ strings.   *)
(***************************************************************************)
EXTENDS Integers, Sequences, FiniteSets, TLC

\* ------------------------------------------------------------------ bounds

\* Largest number of targets the browser's directory holds.
MaxTargets == 3

\* Largest number of calls of one release function in one invocation.
MaxReleases == 2

\* Largest number of events dispatched to the listener of a monitoring
\* command.
MaxEvents == 102

\* ---------------------------------------------------------------- strings

\* The two reserved internal schemes tested by filterPageTargets.
ChromeScheme ==
    <<"c","h","r","o","m","e",":","/","/">>
ChromeUntrustedScheme ==
    <<"c","h","r","o","m","e","-","u","n","t","r","u","s","t","e","d",":","/","/">>

\* unicode.IsSpace on the ASCII range.
WhiteSpace == {" ", "\t", "\n", "\r", "\f"}

UpperCase ==
    <<"A","B","C","D","E","F","G","H","I","J","K","L","M",
      "N","O","P","Q","R","S","T","U","V","W","X","Y","Z">>
LowerCase ==
    <<"a","b","c","d","e","f","g","h","i","j","k","l","m",
      "n","o","p","q","r","s","t","u","v","w","x","y","z">>

\* unicode.ToLower of one ASCII character.
LowerChar(c) ==
    IF \E i \in 1..Len(UpperCase) : UpperCase[i] = c
    THEN LowerCase[CHOOSE i \in 1..Len(UpperCase) : UpperCase[i] = c]
    ELSE c

\* strings.ToLower
ToLower(s) == [i \in 1..Len(s) |-> LowerChar(s[i])]

\* strings.HasPrefix
HasPrefix(s, prefix) ==
    /\ Len(s) >= Len(prefix)
    /\ SubSeq(s, 1, Len(prefix)) = prefix

\* strings.TrimSpace: the slice between the first and the last character that
\* is not white space.
TrimSpace(s) ==
    LET solid == {i \in 1..Len(s) : s[i] \notin WhiteSpace}
    IN  IF solid = {} THEN <<>>
        ELSE SubSeq(s, CHOOSE i \in solid : \A j \in solid : i <= j,
                       CHOOSE i \in solid : \A j \in solid : i >= j)

\* ------------------------------------------------------- input alphabets

UrlFoo ==
    <<"h","t","t","p",":","/","/","x",".","c","o","m","/","F","o","o">>
UrlBar ==
    <<"h","t","t","p",":","/","/","y",".","c","o","m","/","b","a","r">>
UrlNewTab ==
    <<"c","h","r","o","m","e",":","/","/","n","e","w","t","a","b","/">>
UrlUntrusted ==
    <<"c","h","r","o","m","e","-","u","n","t","r","u","s","t","e","d",":","/","/","x">>
UrlWorker ==
    <<"h","t","t","p",":","/","/","x",".","c","o","m","/","s","w",".","j","s">>
UrlExtension ==
    <<"c","h","r","o","m","e","-","e","x","t","e","n","s","i","o","n",":","/","/","a">>

SelY ==
    <<"h","t","t","p",":","/","/","Y",".","c","o","m">>
SelFooPadded ==
    <<" ","h","t","t","p",":","/","/","x",".","c","o","m","/","f"," ">>
SelHttp ==
    <<"H","T","T","P",":","/","/">>
SelYPadded ==
    <<" ","h","t","t","p",":","/","/","y",".","c","o","m"," ">>
SelA == <<"a">>
SelB == <<"b">>
SelBlank == <<" ","\t">>

\* ChromeTarget (the decoded entries of /json/list); Title and
\* WebSocketDebuggerURL are not read by resolution.
ChromeTarget(id, type, url) == [ID |-> id, Type |-> type, URL |-> url]

\* The targets a browser session of the model can hold: two ordinary pages,
\* two internal pages, a service worker and an extension page.
Universe ==
    { ChromeTarget("1", "page", UrlFoo),
      ChromeTarget("2", "page", UrlBar),
      ChromeTarget("3", "page", UrlNewTab),
      ChromeTarget("4", "page", UrlUntrusted),
      ChromeTarget("5", "service_worker", UrlWorker),
      ChromeTarget("6", "page", UrlExtension) }

\* Values of the selector argument of ResolveTarget / of a command's -t flag.
SelectorInputs == {<<>>, SelBlank, SelY, SelFooPadded, SelHttp, ChromeScheme}

\* The env argument of ResolveTarget: nil, or a map (a missing key reads "").
NilEnv == [isNil |-> TRUE, CHROME_TARGET |-> <<>>]
EnvOf(v) == [isNil |-> FALSE, CHROME_TARGET |-> v]
EnvInputs == {NilEnv, EnvOf(SelA), EnvOf(SelBlank)}

\* Values of CHROME_TARGET inherited by the process.
InheritedInputs == {<<>>, SelB, SelYPadded}

\* Values of the global -t flag parsed by main.
GlobalTargetInputs == {<<>>, SelBlank, SelFooPadded}

\* --------------------------------------------------- the resolver (lib)

\* The reason strings of ResolveTarget.  fmt is the format string, sel the
\* value formatted by %q, avail the slice availTabs that strings.Join renders.
Reason(fmt, sel, avail) == [fmt |-> fmt, sel |-> sel, avail |-> avail]

\* One return of ResolveTarget: (targetID, reason, error).
Ret(id, reason, err) == [id |-> id, reason |-> reason, err |-> err]

\* A filter that starts its loop one element late.
filterPageTargetsSkipFirst(targets) ==
    LET pages[i \in 1..(Len(targets) + 1)] ==
            IF i = 1 THEN <<>>
            ELSE LET t == targets[i - 1]
                 IN  IF i = 2 \/ t.Type # "page" THEN pages[i - 1]
                     ELSE IF HasPrefix(t.URL, ChromeScheme)
                             \/ HasPrefix(t.URL, ChromeUntrustedScheme)
                          THEN pages[i - 1]
                          ELSE Append(pages[i - 1], t)
    IN  pages[Len(targets) + 1]

\* A filter that tests only the first reserved scheme.
filterPageTargetsOneScheme(targets) ==
    LET pages[i \in 0..Len(targets)] ==
            IF i = 0 THEN <<>>
            ELSE LET t == targets[i]
                 IN  IF t.Type # "page" THEN pages[i - 1]
                     ELSE IF HasPrefix(t.URL, ChromeScheme) THEN pages[i - 1]
                          ELSE Append(pages[i - 1], t)
    IN  pages[Len(targets)]

\* A filter that does not look at the kind of a target.
filterPageTargetsAnyType(targets) ==
    LET pages[i \in 0..Len(targets)] ==
            IF i = 0 THEN <<>>
            ELSE LET t == targets[i]
                 IN  IF HasPrefix(t.URL, ChromeScheme)
                        \/ HasPrefix(t.URL, ChromeUntrustedScheme)
                     THEN pages[i - 1]
                     ELSE Append(pages[i - 1], t)
    IN  pages[Len(targets)]

\* A filter that builds its result by prepending.
filterPageTargetsPrepend(targets) ==
    LET pages[i \in 0..Len(targets)] ==
            IF i = 0 THEN <<>>
            ELSE LET t == targets[i]
                 IN  IF t.Type # "page" THEN pages[i - 1]
                     ELSE IF HasPrefix(t.URL, ChromeScheme)
                             \/ HasPrefix(t.URL, ChromeUntrustedScheme)
                          THEN pages[i - 1]
                          ELSE <<t>> \o pages[i - 1]
    IN  pages[Len(targets)]

\* filterPageTargets: pages[i] is the slice `pages` after the loop has visited
\* targets[1..i].
filterPageTargets(targets) ==
    LET pages[i \in 0..Len(targets)] ==
            IF i = 0 THEN <<>>
            ELSE LET t == targets[i]
                 IN  IF t.Type # "page" THEN pages[i - 1]
                     ELSE IF HasPrefix(t.URL, ChromeScheme)
                             \/ HasPrefix(t.URL, ChromeUntrustedScheme)
                          THEN pages[i - 1]
                          ELSE Append(pages[i - 1], t)
    IN  pages[Len(targets)]

\* A matcher that returns the last match instead of the first.
matchTargetBySelectorLast(pages, selector) ==
    IF selector = <<>> THEN ""
    ELSE LET selectorLower == ToLower(selector)
             scan[i \in 0..Len(pages)] ==
                 IF i = 0 THEN ""
                 ELSE IF HasPrefix(ToLower(pages[i].URL), selectorLower)
                      THEN pages[i].ID
                      ELSE scan[i - 1]
         IN  scan[Len(pages)]

\* matchTargetBySelector: scan[i] is what the loop returns once it stands at
\* pages[i]; the loop returns at the first match.
matchTargetBySelector(pages, selector) ==
    IF selector = <<>> THEN ""
    ELSE LET selectorLower == ToLower(selector)
             scan[i \in 1..(Len(pages) + 1)] ==
                 IF i = Len(pages) + 1 THEN ""
                 ELSE IF HasPrefix(ToLower(pages[i].URL), selectorLower)
                      THEN pages[i].ID
                      ELSE scan[i + 1]
         IN  scan[1]

\* target.Info as chromedp.Targets reports it (the fields resolution reads).
Info(id, type, attached) == [TargetID |-> id, Type |-> type, Attached |-> attached]

\* A selection that takes attached targets without asking whether they are
\* filtered pages of the directory fetch.
selectPreferredFromInfoAnyAttached(pages, infos) ==
    IF Len(pages) = 0 THEN ""
    ELSE LET attached == {i \in 1..Len(infos) :
                             infos[i].Type = "page" /\ infos[i].Attached}
             any == {i \in 1..Len(infos) : infos[i].Type = "page"}
             First(S) == CHOOSE i \in S : \A j \in S : i <= j
         IN  IF attached # {} THEN infos[First(attached)].TargetID
             ELSE IF any # {} THEN infos[First(any)].TargetID
             ELSE ""

\* selectPreferredFromInfo: pageSet, then the loop that returns the first
\* attached page of pageSet, then the loop that returns the first page of
\* pageSet.
selectPreferredFromInfo(pages, infos) ==
    IF Len(pages) = 0 THEN ""
    ELSE LET pageSet == {pages[i].ID : i \in 1..Len(pages)}
             loop1[i \in 1..(Len(infos) + 1)] ==
                 IF i = Len(infos) + 1 THEN ""
                 ELSE IF infos[i].Type # "page" THEN loop1[i + 1]
                 ELSE IF infos[i].TargetID \notin pageSet THEN loop1[i + 1]
                 ELSE IF infos[i].Attached THEN infos[i].TargetID
                 ELSE loop1[i + 1]
             loop2[i \in 1..(Len(infos) + 1)] ==
                 IF i = Len(infos) + 1 THEN ""
                 ELSE IF infos[i].Type # "page" THEN loop2[i + 1]
                 ELSE IF infos[i].TargetID \in pageSet THEN infos[i].TargetID
                 ELSE loop2[i + 1]
         IN  IF loop1[1] # "" THEN loop1[1] ELSE loop2[1]

\* A selector choice that reads the process environment before the map.
selectedSelectorEnvFirst(selector, env, environ) ==
    LET s1 == TrimSpace(selector)
        s2 == IF s1 = <<>> THEN TrimSpace(environ) ELSE s1
    IN  IF s2 = <<>> /\ ~env.isNil THEN TrimSpace(env.CHROME_TARGET) ELSE s2

\* The head of ResolveTarget: the value of `selected` once the selector
\* argument, the env map and os.Getenv("CHROME_TARGET") (environ) were read.
selectedSelector(selector, env, environ) ==
    LET s1 == TrimSpace(selector)
        s2 == IF s1 = <<>> /\ ~env.isNil THEN TrimSpace(env.CHROME_TARGET) ELSE s1
    IN  IF s2 = <<>> THEN TrimSpace(environ) ELSE s2

\* FetchTargets: the decoded /json/list, or an error (transport failure,
\* status other than 200, undecodable body).
FetchTargets(directory, fails) ==
    IF fails THEN [targets |-> <<>>, err |-> TRUE]
    ELSE [targets |-> directory, err |-> FALSE]

\* fetchTargetInfos: what chromedp.Targets reports, or its error.
fetchTargetInfos(enumeration, fails) ==
    IF fails THEN [infos |-> <<>>, err |-> TRUE]
    ELSE [infos |-> enumeration, err |-> FALSE]

NoReason == Reason("", <<>>, <<>>)

\* A ResolveTarget that passes the error of fetchTargetInfos on.
ResolveTargetInfosErr(selector, env, environ, fetched, infosRes) ==
    LET selected == selectedSelector(selector, env, environ)
    IN  IF fetched.err THEN Ret("", NoReason, TRUE)
        ELSE LET pages == filterPageTargets(fetched.targets)
             IN  IF Len(pages) = 0
                 THEN Ret("", Reason("no page targets", <<>>, <<>>), FALSE)
                 ELSE IF selected # <<>>
                 THEN LET id == matchTargetBySelector(pages, selected)
                      IN  IF id # ""
                          THEN Ret(id, Reason("matched selector %q", selected, <<>>), FALSE)
                          ELSE Ret("", Reason("no tab URL starts with %q. Available: %s",
                                              selected,
                                              [i \in 1..Len(pages) |-> pages[i].URL]),
                                   FALSE)
                 ELSE IF infosRes.err THEN Ret("", NoReason, TRUE)
                 ELSE LET id == selectPreferredFromInfo(pages, infosRes.infos)
                      IN  IF id # ""
                          THEN Ret(id, Reason("preferred attached tab", <<>>, <<>>), FALSE)
                          ELSE Ret(pages[1].ID, Reason("first page tab", <<>>, <<>>), FALSE)

\* A ResolveTarget that tries the selector before it looks whether any page
\* is left.
ResolveTargetSelectorFirst(selector, env, environ, fetched, infosRes) ==
    LET selected == selectedSelector(selector, env, environ)
    IN  IF fetched.err THEN Ret("", NoReason, TRUE)
        ELSE LET pages == filterPageTargets(fetched.targets)
             IN  IF selected # <<>>
                 THEN LET id == matchTargetBySelector(pages, selected)
                      IN  IF id # ""
                          THEN Ret(id, Reason("matched selector %q", selected, <<>>), FALSE)
                          ELSE Ret("", Reason("no tab URL starts with %q. Available: %s",
                                              selected,
                                              [i \in 1..Len(pages) |-> pages[i].URL]),
                                   FALSE)
                 ELSE IF Len(pages) = 0
                 THEN Ret("", Reason("no page targets", <<>>, <<>>), FALSE)
                 ELSE LET id == IF infosRes.err THEN ""
                                ELSE selectPreferredFromInfo(pages, infosRes.infos)
                      IN  IF id # ""
                          THEN Ret(id, Reason("preferred attached tab", <<>>, <<>>), FALSE)
                          ELSE Ret(pages[1].ID, Reason("first page tab", <<>>, <<>>), FALSE)

\* A ResolveTarget whose last fallback is the first entry of the plain fetch,
\* filtered or not.
ResolveTargetFirstOfFetch(selector, env, environ, fetched, infosRes) ==
    LET selected == selectedSelector(selector, env, environ)
    IN  IF fetched.err THEN Ret("", NoReason, TRUE)
        ELSE LET pages == filterPageTargets(fetched.targets)
             IN  IF Len(pages) = 0
                 THEN Ret("", Reason("no page targets", <<>>, <<>>), FALSE)
                 ELSE IF selected # <<>>
                 THEN LET id == matchTargetBySelector(pages, selected)
                      IN  IF id # ""
                          THEN Ret(id, Reason("matched selector %q", selected, <<>>), FALSE)
                          ELSE Ret("", Reason("no tab URL starts with %q. Available: %s",
                                              selected,
                                              [i \in 1..Len(pages) |-> pages[i].URL]),
                                   FALSE)
                 ELSE LET id == IF infosRes.err THEN ""
                                ELSE selectPreferredFromInfo(pages, infosRes.infos)
                      IN  IF id # ""
                          THEN Ret(id, Reason("preferred attached tab", <<>>, <<>>), FALSE)
                          ELSE Ret(fetched.targets[1].ID,
                                   Reason("first page tab", <<>>, <<>>), FALSE)

\* ResolveTarget.  fetched is the result of its FetchTargets call, infosRes
\* the result of its fetchTargetInfos call (made only on the last path).
ResolveTarget(selector, env, environ, fetched, infosRes) ==
    LET selected == selectedSelector(selector, env, environ)
    IN  IF fetched.err THEN Ret("", NoReason, TRUE)
        ELSE LET pages == filterPageTargets(fetched.targets)
             IN  IF Len(pages) = 0
                 THEN Ret("", Reason("no page targets", <<>>, <<>>), FALSE)
                 ELSE IF selected # <<>>
                 THEN LET id == matchTargetBySelector(pages, selected)
                      IN  IF id # ""
                          THEN Ret(id, Reason("matched selector %q", selected, <<>>), FALSE)
                          ELSE Ret("", Reason("no tab URL starts with %q. Available: %s",
                                              selected,
                                              [i \in 1..Len(pages) |-> pages[i].URL]),
                                   FALSE)
                 ELSE LET id == IF infosRes.err THEN ""
                                ELSE selectPreferredFromInfo(pages, infosRes.infos)
                      IN  IF id # ""
                          THEN Ret(id, Reason("preferred attached tab", <<>>, <<>>), FALSE)
                          ELSE Ret(pages[1].ID, Reason("first page tab", <<>>, <<>>), FALSE)

\* Whether this call of ResolveTarget reaches its fetchTargetInfos call.
ReachesInfos(selector, env, environ, fetched) ==
    /\ ~fetched.err
    /\ Len(filterPageTargets(fetched.targets)) > 0
    /\ selectedSelector(selector, env, environ) = <<>>

\* ------------------------------------------------------------------ state

VARIABLES
    targets,    \* the browser's directory (/json/list), in its order
    osEnv,      \* CHROME_TARGET in the process environment
    globalT,    \* the value of the global -t flag main parsed
    call,       \* the ResolveTarget call last made: arguments, fetches, the
                \* slice `pages` it computed, return
    chromeUp,   \* a browser answers on the remote-debugging port
    inv,        \* the invocation of a command in flight: its contexts, the
                \* calls of its release functions, its exit status, the ids
                \* in the directory when it started and the ids its
                \* ResolveTarget("", nil) and ResolveTarget(sel, nil) calls
                \* returned, whether the browser of its own allocator can
                \* not be started (no binary, no endpoint in time)
    mon,        \* a console or network command: its position, the buffered
                \* channel, the lines printed, the deadline timer
    registry,   \* the instance metadata files, one per port
    ports,      \* per debugging port: "down", "starting" (a browser process
                \* was started and does not answer yet), "up", "closing"
                \* (Browser.close was received; it still answers)
    cli,        \* the launch, quit and instances invocations in flight
    proc,       \* one run of the binary from main on: its arguments, the
                \* values main stores in the environment, the lines written
                \* to standard error, the exit status
    wait,       \* a waitfor or wait command: the clock in ticks of 100 ms,
                \* the deadlines of its contexts, its ticker and its loop
    cap,        \* the timers of a console or network command: the clock in
                \* seconds, the context deadline, the capture deadline
    step,       \* a step command: the action subprocess, the screenshot,
                \* the metadata files
    shot        \* a CaptureScreenshot call: its two directory snapshots,
                \* the tab captured, the file written

vars == <<targets, osEnv, globalT, call, chromeUp, inv, mon, registry, ports, cli,
          proc, wait, cap, step, shot>>

\* The values of the variables a specification does not use.
IdleProc ==
    [pc |-> "idle", argv |-> <<>>, cmd |-> <<>>, CHROME_PORT |-> <<>>,
     CHROME_TARGET |-> <<>>, stderr |-> 0, exit |-> 0, path |-> ""]
IdleWait ==
    [pc |-> "idle", cmd |-> "", now |-> 0, timeout |-> 0, acquireAt |-> 0,
     deadline |-> [set |-> FALSE, at |-> 0], due |-> 0, own |-> 0, loopAt |-> 0,
     loop |-> [set |-> FALSE, at |-> 0], tickReady |-> FALSE, holds |-> FALSE,
     started |-> 0, lastTick |-> -1, aborted |-> FALSE, last |-> "",
     result |-> "", exit |-> 0]
IdleCap ==
    [pc |-> "idle", cmd |-> "", follow |-> FALSE, duration |-> <<>>,
     ctxTimeout |-> <<>>, hasDeadline |-> FALSE, armedAt |-> <<>>,
     timerAt |-> <<>>, expired |-> FALSE, result |-> "", exit |-> 0]
IdleStep ==
    [pc |-> "idle", n |-> 0, exit |-> 0, failedAt |-> "", stderr |-> 0,
     acted |-> {}, shots |-> {}, partials |-> {}, metas |-> {}, lastStep |-> 0]
IdleShot ==
    [pc |-> "idle", selector |-> <<>>, resolved |-> "", listed |-> FALSE,
     blank |-> FALSE, wsURL |-> <<>>, remote |-> "", remoteCaptured |-> "",
     remoteWrote |-> FALSE, file |-> "", err |-> FALSE]

NoCall == [phase |-> "none"]

\* A chromedp context: the allocator kind it hangs on, the id given with
\* WithTargetID ("" when none), and Target, the id it is attached to once it
\* ran ("" stands for nil).
Context(mode, targetID) == [mode |-> mode, targetID |-> targetID, Target |-> ""]
NoContext == Context("none", "")

IdleInv ==
    [pc |-> "idle", selector |-> <<>>, ctx |-> NoContext, targetCtx |-> NoContext,
     released |-> FALSE, headless |-> FALSE, cancels |-> 0, targetCancels |-> 0,
     exit |-> 0, before |-> {}, resolved |-> "", selResolved |-> "",
     launchFails |-> FALSE]

\* A monitoring command that has not started.  messages is the channel,
\* accepted the events the listener put into it, printed the lines written,
\* arrived the number of events dispatched to the listener.
IdleMon ==
    [pc |-> "idle", follow |-> FALSE, messages |-> <<>>, accepted |-> <<>>,
     printed |-> <<>>, arrived |-> 0, listener |-> "ready",
     deadline |-> "unset", exit |-> 0]

\* The debugging ports of the registry specification, its user data
\* directories and its CLI invocations.
Ports == {9222, 9223}
Dirs == {"~/.chrome"}
Clis == {"a", "b"}
PortsDown == [p \in Ports |-> "down"]

\* lib.InstanceInfo.  StartedAt is time.Now().Format(time.RFC3339), kept as
\* one value.  NoRecord stands for "no file", Corrupt for a file that does
\* not parse.
InstanceInfo(port, userDataDir, pid) ==
    [Port |-> port, UserDataDir |-> userDataDir, PID |-> pid, StartedAt |-> "now"]
NoRecord == [Port |-> 0, UserDataDir |-> "", PID |-> 0, StartedAt |-> ""]
Corrupt == [Port |-> 0, UserDataDir |-> "", PID |-> 0, StartedAt |-> "{"]
NoRecords == [p \in Ports |-> NoRecord]

\* A CLI invocation: the command, its port, userDataDir and pid, the loop
\* counter i of launch, whether a warning was printed, whether its registry
\* call returned an error, the exit status, what instances listed.
IdleCli ==
    [pc |-> "idle", cmd |-> "", port |-> 0, userDataDir |-> "", pid |-> 0,
     i |-> 0, warned |-> FALSE, err |-> FALSE, exit |-> 0, listed |-> {}]
IdleClis == [c \in Clis |-> IdleCli]

\* An invocation that has ended: its locals are gone.
Exited(cmd, port, status) ==
    [IdleCli EXCEPT !.pc = "exited", !.cmd = cmd, !.port = port, !.exit = status]

DirectoryIds(dir) == {dir[i].ID : i \in 1..Len(dir)}

\* What the richer enumeration can report while the directory is dir: the
\* browser's targets in the directory's order or in the opposite order, any of
\* them gone by the time of the second request, each attached or not.
Enumerations(dir) ==
    LET n == Len(dir)
        Picks == {S \in SUBSET (1..n) : TRUE}
        Ordered(S, up) ==
            LET k == Cardinality(S)
                rank(i) == Cardinality({j \in S : IF up THEN j <= i ELSE j >= i})
            IN  [r \in 1..k |-> CHOOSE i \in S : rank(i) = r]
    IN  UNION { UNION { { [r \in 1..Cardinality(S) |->
                             Info(dir[Ordered(S, up)[r]].ID,
                                  dir[Ordered(S, up)[r]].Type,
                                  flags[r])]
                          : flags \in [1..Cardinality(S) -> BOOLEAN] }
                        : up \in BOOLEAN }
                : S \in Picks }

Init ==
    /\ targets = <<>>
    /\ osEnv \in InheritedInputs
    /\ globalT = <<>>
    /\ call = NoCall
    /\ chromeUp = TRUE
    /\ inv = IdleInv
    /\ mon = IdleMon
    /\ registry = NoRecords
    /\ ports = PortsDown
    /\ cli = IdleClis
    /\ proc = IdleProc
    /\ wait = IdleWait
    /\ cap = IdleCap
    /\ step = IdleStep
    /\ shot = IdleShot

\* ---------------------------------------------------------------- browser

\* The browser opens a tab or starts a worker.
OpenTarget(t) ==
    /\ call = NoCall
    /\ inv.pc = "idle"
    /\ chromeUp
    /\ Len(targets) < MaxTargets
    /\ t.ID \notin DirectoryIds(targets)
    /\ targets' = Append(targets, t)
    /\ UNCHANGED <<osEnv, globalT, call, chromeUp, inv>>
    /\ UNCHANGED <<mon, registry, ports, cli, proc, wait, cap, step, shot>>

\* The browser closes one.
CloseTarget(i) ==
    /\ call = NoCall
    /\ inv.pc = "idle"
    /\ i \in 1..Len(targets)
    /\ targets' = [j \in 1..(Len(targets) - 1) |->
                      IF j < i THEN targets[j] ELSE targets[j + 1]]
    /\ UNCHANGED <<osEnv, globalT, call, chromeUp, inv>>
    /\ UNCHANGED <<mon, registry, ports, cli, proc, wait, cap, step, shot>>

\* --------------------------------------------------------------- the CLI

\* main: the global -t flag is stored in the process environment when it is
\* not blank.
main(target) ==
    /\ call = NoCall
    /\ globalT' = target
    /\ osEnv' = IF TrimSpace(target) # <<>> THEN target ELSE osEnv
    /\ UNCHANGED <<targets, call, chromeUp, inv>>
    /\ UNCHANGED <<mon, registry, ports, cli, proc, wait, cap, step, shot>>

\* A call of ResolveTarget that returns before fetchTargetInfos.
ResolveDirect(selector, env, fails) ==
    /\ call = NoCall
    /\ LET fetched == FetchTargets(targets, fails)
       IN  /\ ~ReachesInfos(selector, env, osEnv, fetched)
           /\ call' = [phase |-> "returned", selector |-> selector, env |-> env,
                       environ |-> osEnv, fetched |-> fetched,
                       pages |-> filterPageTargets(fetched.targets),
                       infosRes |-> fetchTargetInfos(<<>>, TRUE), asked |-> FALSE,
                       ret |-> ResolveTarget(selector, env, osEnv, fetched,
                                             fetchTargetInfos(<<>>, TRUE))]
    /\ UNCHANGED <<targets, osEnv, globalT, chromeUp, inv>>
    /\ UNCHANGED <<mon, registry, ports, cli, proc, wait, cap, step, shot>>

\* A call of ResolveTarget that goes on to fetchTargetInfos.
ResolveWithInfos(selector, env) ==
    /\ call = NoCall
    /\ LET fetched == FetchTargets(targets, FALSE)
       IN  /\ ReachesInfos(selector, env, osEnv, fetched)
           /\ \E infosRes \in {fetchTargetInfos(<<>>, TRUE)}
                          \cup {fetchTargetInfos(en, FALSE) : en \in Enumerations(targets)} :
                  call' = [phase |-> "returned", selector |-> selector, env |-> env,
                           environ |-> osEnv, fetched |-> fetched,
                           pages |-> filterPageTargets(fetched.targets),
                           infosRes |-> infosRes, asked |-> TRUE,
                           ret |-> ResolveTarget(selector, env, osEnv, fetched, infosRes)]
    /\ UNCHANGED <<targets, osEnv, globalT, chromeUp, inv>>
    /\ UNCHANGED <<mon, registry, ports, cli, proc, wait, cap, step, shot>>

\* The caller has used the result.
Return ==
    /\ call # NoCall
    /\ call' = NoCall
    /\ UNCHANGED <<targets, osEnv, globalT, chromeUp, inv>>
    /\ UNCHANGED <<mon, registry, ports, cli, proc, wait, cap, step, shot>>

Next ==
    \/ \E t \in Universe : OpenTarget(t)
    \/ \E i \in 1..MaxTargets : CloseTarget(i)
    \/ \E g \in GlobalTargetInputs : main(g)
    \/ \E s \in SelectorInputs, e \in EnvInputs, f \in BOOLEAN :
           ResolveDirect(s, e, f)
    \/ \E s \in SelectorInputs, e \in EnvInputs : ResolveWithInfos(s, e)
    \/ Return

Spec == Init /\ [][Next]_vars

\* ------------------------------------------------- context lifecycle (lib)

AboutBlank ==
    <<"a","b","o","u","t",":","b","l","a","n","k">>

\* The ids the browser gives to the tabs it creates for a context that names
\* no target.
FreshIds == <<"n1", "n2", "n3", "n4", "n5", "n6">>
FreshId(dir) ==
    FreshIds[CHOOSE i \in 1..Len(FreshIds) :
                 /\ FreshIds[i] \notin DirectoryIds(dir)
                 /\ \A j \in 1..(i - 1) : FreshIds[j] \in DirectoryIds(dir)]

\* The targets of the lifecycle specification, and the -t values of its
\* commands.
CtxUniverse ==
    { ChromeTarget("1", "page", UrlFoo),
      ChromeTarget("2", "page", UrlBar),
      ChromeTarget("3", "page", UrlNewTab),
      ChromeTarget("5", "service_worker", UrlWorker) }
CtxSelectorInputs == {<<>>, SelY, SelFooPadded, ChromeScheme}
CtxInheritedInputs == {<<>>, SelYPadded}

\* IsChromeRunning: GET /json/version answers 200.
IsChromeRunning(up) == up

RemoveTarget(dir, id) ==
    SelectSeq(dir, LAMBDA t : t.ID # id)

\* The cancel function chromedp.NewContext returns: cancelling a context
\* closes the tab it is attached to.
browserCancel(dir, c) ==
    IF c.Target # "" THEN RemoveTarget(dir, c.Target) ELSE dir

\* A SetupContextWithTimeout that gives no context when the probe fails.
SetupContextWithTimeoutRemoteOnly(running, ret) ==
    IF running
    THEN IF ret.id # "" THEN Context("remote", ret.id) ELSE Context("remote", "")
    ELSE NoContext

\* A SetupContextWithTimeout that starts its own browser whatever the probe
\* says.
SetupContextWithTimeoutAlwaysExec(running, ret) ==
    Context("launched", "")

\* A SetupContextWithTimeout that leaves out WithTargetID.
SetupContextWithTimeoutUnbound(running, ret) ==
    IF running THEN Context("remote", "") ELSE Context("launched", "")

\* SetupContextWithTimeout: the context it returns.  ret is the return of its
\* ResolveTarget("", nil) call, made only when the probe succeeded.
SetupContextWithTimeout(running, ret) ==
    IF running
    THEN IF ret.id # ""
         THEN Context("remote", ret.id)
         ELSE Context("remote", "")
    ELSE Context("launched", "")

\* A remote-mode release that cancels the chromedp context as the
\* launched-mode release does.
combinedCancelRemoteWithBrowserCancel(dir, up, i) ==
    [targets |-> browserCancel(browserCancel(dir, i.ctx), i.targetCtx),
     chromeUp |-> up,
     inv |-> [i EXCEPT !.released = TRUE]]

\* combinedCancel of the remote branch: allocCancel(), cancel().  The
\* chromedp context's own cancel function is not called.
combinedCancelRemote(dir, up, i) ==
    [targets |-> dir,
     chromeUp |-> up,
     inv |-> [i EXCEPT !.released = TRUE]]

\* combinedCancel of the launched branch: browserCancel(), allocCancel(),
\* cancel().  The browser it ends is the one the allocator started, not the
\* one on the debugging port.
combinedCancelLaunched(dir, up, i) ==
    [targets |-> dir,
     chromeUp |-> up,
     inv |-> [i EXCEPT !.released = TRUE, !.headless = FALSE,
                       !.ctx.Target = "", !.targetCtx.Target = ""]]

\* An EnsureTargetContext that hands back the context it was given instead
\* of one made with WithTargetID.
EnsureTargetContextKeepsCtx(ctx, selector, running, ret) ==
    LET sel == TrimSpace(selector)
    IN  IF sel = <<>> THEN [ctx |-> ctx, err |-> FALSE]
        ELSE IF ~running THEN [ctx |-> NoContext, err |-> TRUE]
        ELSE IF ret.err THEN [ctx |-> NoContext, err |-> TRUE]
        ELSE IF ret.id = "" THEN [ctx |-> NoContext, err |-> TRUE]
        ELSE [ctx |-> ctx, err |-> FALSE]

\* EnsureTargetContext: (context, error).  Its cancel function is func() {}.
\* ret is the return of its ResolveTarget(sel, nil) call.
EnsureTargetContext(ctx, selector, running, ret) ==
    LET sel == TrimSpace(selector)
    IN  IF sel = <<>> THEN [ctx |-> ctx, err |-> FALSE]
        ELSE IF ~running THEN [ctx |-> NoContext, err |-> TRUE]
        ELSE IF ret.err THEN [ctx |-> NoContext, err |-> TRUE]
        ELSE IF ret.id = "" THEN [ctx |-> NoContext, err |-> TRUE]
        ELSE IF ctx.Target # "" /\ ctx.Target = ret.id THEN [ctx |-> ctx, err |-> FALSE]
        ELSE [ctx |-> Context(ctx.mode, ret.id), err |-> FALSE]

\* What fetchTargetInfos can return to a ResolveTarget call that reaches it,
\* and the one value that stands for "not called" otherwise.
InfoResults(selector) ==
    IF ReachesInfos(selector, NilEnv, osEnv, FetchTargets(targets, FALSE))
    THEN {fetchTargetInfos(<<>>, TRUE)}
             \cup {fetchTargetInfos(en, FALSE) : en \in Enumerations(targets)}
    ELSE {fetchTargetInfos(<<>>, TRUE)}

InitCtx ==
    /\ targets = <<>>
    /\ osEnv \in CtxInheritedInputs
    /\ globalT = <<>>
    /\ call = NoCall
    /\ chromeUp = FALSE
    /\ inv = IdleInv
    /\ mon = IdleMon
    /\ registry = NoRecords
    /\ ports = PortsDown
    /\ cli = IdleClis
    /\ proc = IdleProc
    /\ wait = IdleWait
    /\ cap = IdleCap
    /\ step = IdleStep
    /\ shot = IdleShot

\* `chrome launch`: a browser starts on the debugging port.
BrowserStart ==
    /\ inv.pc = "idle"
    /\ ~chromeUp
    /\ chromeUp' = TRUE
    /\ UNCHANGED <<targets, osEnv, globalT, call, inv>>
    /\ UNCHANGED <<mon, registry, ports, cli, proc, wait, cap, step, shot>>

\* `chrome quit`: the browser on the debugging port ends, and its tabs.
BrowserQuit ==
    /\ inv.pc = "idle"
    /\ chromeUp
    /\ chromeUp' = FALSE
    /\ targets' = <<>>
    /\ UNCHANGED <<osEnv, globalT, call, inv>>
    /\ UNCHANGED <<mon, registry, ports, cli, proc, wait, cap, step, shot>>

\* A command with TargetArgs starts: SetupContext().
Setup(selector, fails) ==
    /\ inv.pc = "idle"
    /\ \E infosRes \in (IF chromeUp /\ ~fails THEN InfoResults(<<>>)
                        ELSE {fetchTargetInfos(<<>>, TRUE)}) :
           LET ret == ResolveTarget(<<>>, NilEnv, osEnv,
                                    FetchTargets(targets, fails), infosRes)
           IN  \E noLaunch \in (IF IsChromeRunning(chromeUp) THEN {FALSE} ELSE BOOLEAN) :
               inv' = [inv EXCEPT
                          !.pc = "setup",
                          !.launchFails = noLaunch,
                          !.selector = selector,
                          !.before = DirectoryIds(targets),
                          !.resolved = IF IsChromeRunning(chromeUp) THEN ret.id ELSE "",
                          !.ctx = SetupContextWithTimeout(IsChromeRunning(chromeUp), ret)]
    /\ UNCHANGED <<targets, osEnv, globalT, call, chromeUp>>
    /\ UNCHANGED <<mon, registry, ports, cli, proc, wait, cap, step, shot>>

\* The command calls EnsureTargetContext(ctx, args.Selector()); on an error it
\* prints it and exits 1.
Ensure(fails) ==
    /\ inv.pc = "setup"
    /\ LET ret == ResolveTarget(inv.selector, NilEnv, osEnv,
                                FetchTargets(targets, fails),
                                fetchTargetInfos(<<>>, TRUE))
           got == EnsureTargetContext(inv.ctx, inv.selector,
                                      IsChromeRunning(chromeUp), ret)
           called == TrimSpace(inv.selector) # <<>> /\ IsChromeRunning(chromeUp)
       IN  inv' = IF got.err
                  THEN [inv EXCEPT !.pc = "exited", !.exit = 1,
                                   !.selResolved = IF called THEN ret.id ELSE ""]
                  ELSE [inv EXCEPT !.pc = "ensured", !.targetCtx = got.ctx,
                                   !.selResolved = IF called THEN ret.id ELSE ""]
    /\ UNCHANGED <<targets, osEnv, globalT, call, chromeUp>>
    /\ UNCHANGED <<mon, registry, ports, cli, proc, wait, cap, step, shot>>

\* chromedp.Run(targetCtx, ...) succeeds.  A context with a target id attaches
\* to that tab; a remote context without one has the browser create a tab; a
\* launched context starts its own browser.
Run ==
    /\ inv.pc = "ensured"
    /\ ~inv.released
    /\ LET c == inv.targetCtx
           same == inv.ctx = inv.targetCtx
           attach(id) == [inv EXCEPT !.pc = "ran",
                                     !.targetCtx.Target = id,
                                     !.ctx.Target = IF same THEN id ELSE @]
       IN  IF c.mode = "remote" /\ c.targetID # ""
           THEN /\ c.targetID \in DirectoryIds(targets)
                /\ inv' = attach(c.targetID)
                /\ UNCHANGED targets
           ELSE IF c.mode = "remote"
           THEN /\ Len(targets) < MaxTargets
                /\ targets' = Append(targets,
                                     ChromeTarget(FreshId(targets), "page", AboutBlank))
                /\ inv' = attach(FreshId(targets))
           ELSE /\ ~inv.launchFails
                /\ inv' = [attach("headless") EXCEPT !.headless = TRUE]
                /\ UNCHANGED targets
    /\ UNCHANGED <<osEnv, globalT, call, chromeUp>>
    /\ UNCHANGED <<mon, registry, ports, cli, proc, wait, cap, step, shot>>

\* chromedp.Run returns an error; the command prints it and exits 1.
RunFails ==
    /\ inv.pc = "ensured"
    /\ inv' = [inv EXCEPT !.pc = "exited", !.exit = 1]
    /\ UNCHANGED <<targets, osEnv, globalT, call, chromeUp>>
    /\ UNCHANGED <<mon, registry, ports, cli, proc, wait, cap, step, shot>>

\* A call of the cancel function SetupContext returned.
Cancel ==
    /\ inv.pc \in {"setup", "ensured", "ran"}
    /\ inv.cancels < MaxReleases
    /\ LET after == IF inv.ctx.mode = "remote"
                    THEN combinedCancelRemote(targets, chromeUp, inv)
                    ELSE combinedCancelLaunched(targets, chromeUp, inv)
       IN  /\ targets' = after.targets
           /\ chromeUp' = after.chromeUp
           /\ inv' = [after.inv EXCEPT !.cancels = @ + 1]
    /\ UNCHANGED <<osEnv, globalT, call>>
    /\ UNCHANGED <<mon, registry, ports, cli, proc, wait, cap, step, shot>>

\* A call of the cancel function EnsureTargetContext returned: func() {}.
TargetCancel ==
    /\ inv.pc \in {"ensured", "ran"}
    /\ inv.targetCancels < MaxReleases
    /\ inv' = [inv EXCEPT !.targetCancels = @ + 1]
    /\ UNCHANGED <<targets, osEnv, globalT, call, chromeUp>>
    /\ UNCHANGED <<mon, registry, ports, cli, proc, wait, cap, step, shot>>

\* The command returns after its deferred calls and the process exits 0.
Exit ==
    /\ inv.pc = "ran"
    /\ inv.cancels >= 1
    /\ inv.targetCancels >= 1
    /\ inv' = [inv EXCEPT !.pc = "exited", !.exit = 0]
    /\ UNCHANGED <<targets, osEnv, globalT, call, chromeUp>>
    /\ UNCHANGED <<mon, registry, ports, cli, proc, wait, cap, step, shot>>

\* The next invocation of the CLI.
NextInvocation ==
    /\ inv.pc = "exited"
    /\ inv' = IdleInv
    /\ UNCHANGED <<targets, osEnv, globalT, call, chromeUp>>
    /\ UNCHANGED <<mon, registry, ports, cli, proc, wait, cap, step, shot>>

NextCtx ==
    \/ \E t \in CtxUniverse : OpenTarget(t)
    \/ \E i \in 1..MaxTargets : CloseTarget(i)
    \/ BrowserStart
    \/ BrowserQuit
    \/ \E s \in CtxSelectorInputs, f \in BOOLEAN : Setup(s, f)
    \/ \E f \in BOOLEAN : Ensure(f)
    \/ Run
    \/ RunFails
    \/ Cancel
    \/ TargetCancel
    \/ Exit
    \/ NextInvocation

SpecCtx == InitCtx /\ [][NextCtx]_vars

\* ------------------------------------------- monitoring (console, network)

\* make(chan ConsoleMessage, 100), make(chan NetworkEvent, 100)
QueueCapacity == 100

\* A plain send `messages <- msg`: the listener waits while the channel is
\* full.
selectSendBlocking(messages, msg) ==
    IF Len(messages) < QueueCapacity
    THEN [messages |-> Append(messages, msg), sent |-> TRUE, listener |-> "ready"]
    ELSE [messages |-> messages, sent |-> FALSE, listener |-> "blocked"]

\* select { case messages <- msg: default: } : the send happens when the
\* channel has room, the default case runs otherwise.
selectSend(messages, msg) ==
    IF Len(messages) < QueueCapacity
    THEN [messages |-> Append(messages, msg), sent |-> TRUE, listener |-> "ready"]
    ELSE [messages |-> messages, sent |-> FALSE, listener |-> "ready"]

otherVars == <<targets, osEnv, globalT, call, chromeUp, inv, registry, ports, cli,
               proc, wait, cap, step, shot>>

InitMon ==
    /\ targets = <<>>
    /\ osEnv = <<>>
    /\ globalT = <<>>
    /\ call = NoCall
    /\ chromeUp = TRUE
    /\ inv = IdleInv
    /\ mon = IdleMon
    /\ registry = NoRecords
    /\ ports = PortsDown
    /\ cli = IdleClis
    /\ proc = IdleProc
    /\ wait = IdleWait
    /\ cap = IdleCap
    /\ step = IdleStep
    /\ shot = IdleShot

\* console / networkCmd up to ListenTarget: the contexts are there, the
\* channel is made and the listener registered.
ListenTarget(follow) ==
    /\ mon.pc = "idle"
    /\ mon' = [mon EXCEPT !.pc = "listening", !.follow = follow]
    /\ UNCHANGED otherVars

\* The listener is called with an event of a type it handles; the events are
\* numbered in the order of their dispatch.
Listener ==
    /\ mon.pc \in {"listening", "draining"}
    /\ mon.listener = "ready"
    /\ mon.arrived < MaxEvents
    /\ LET msg == mon.arrived + 1
           res == selectSend(mon.messages, msg)
       IN  mon' = [mon EXCEPT !.arrived = msg,
                              !.messages = res.messages,
                              !.listener = res.listener,
                              !.accepted = IF res.sent THEN Append(@, msg) ELSE @]
    /\ UNCHANGED otherVars

\* chromedp.Run(targetCtx, ...Enable()) or the --eval Run returns an error.
EnableFails ==
    /\ mon.pc = "listening"
    /\ mon' = [mon EXCEPT !.pc = "exited", !.exit = 1]
    /\ UNCHANGED otherVars

\* The Run calls succeeded; the command enters its loop, in fixed-duration
\* mode after deadline := time.After(...).
StartDrain ==
    /\ mon.pc = "listening"
    /\ mon' = [mon EXCEPT !.pc = "draining",
                          !.deadline = IF mon.follow THEN "unset" ELSE "armed"]
    /\ UNCHANGED otherVars

\* The timer of time.After fires.
DeadlineFires ==
    /\ mon.deadline = "armed"
    /\ mon' = [mon EXCEPT !.deadline = "fired"]
    /\ UNCHANGED otherVars

\* A receive that takes the newest element of the channel.
ReceiveNewest ==
    /\ mon.pc = "draining"
    /\ mon.messages # <<>>
    /\ mon' = [mon EXCEPT !.messages = SubSeq(@, 1, Len(@) - 1),
                          !.printed = Append(@, mon.messages[Len(mon.messages)]),
                          !.listener = "ready"]
    /\ UNCHANGED otherVars

\* case msg := <-messages: lib.PrintJSONLine(msg)
Receive ==
    /\ mon.pc = "draining"
    /\ mon.messages # <<>>
    /\ mon' = [mon EXCEPT !.messages = Tail(@),
                          !.printed = Append(@, Head(mon.messages)),
                          !.listener = "ready"]
    /\ UNCHANGED otherVars

\* A loop that looks at the deadline only when the channel is empty.
ReturnOnDeadlineWhenDrained ==
    /\ mon.pc = "draining"
    /\ ~mon.follow
    /\ mon.deadline = "fired"
    /\ mon.messages = <<>>
    /\ mon' = [mon EXCEPT !.pc = "returned", !.exit = 0]
    /\ UNCHANGED otherVars

\* case <-deadline: return
ReturnOnDeadline ==
    /\ mon.pc = "draining"
    /\ ~mon.follow
    /\ mon.deadline = "fired"
    /\ mon' = [mon EXCEPT !.pc = "returned", !.exit = 0]
    /\ UNCHANGED otherVars

\* The process is ended from outside (Ctrl+C).
Kill ==
    /\ mon.pc \in {"listening", "draining"}
    /\ mon' = [mon EXCEPT !.pc = "killed"]
    /\ UNCHANGED otherVars

NextMon ==
    \/ \E f \in BOOLEAN : ListenTarget(f)
    \/ Listener
    \/ EnableFails
    \/ StartDrain
    \/ DeadlineFires
    \/ Receive
    \/ ReturnOnDeadline
    \/ Kill

SpecMon == InitMon /\ [][NextMon]_vars

\* Go's select picks among its ready cases at random, so a deadline case
\* that stays ready is taken.
SpecMonFair == SpecMon /\ WF_vars(ReturnOnDeadline)

\* ------------------------------------- instance registry (launch, quit)

\* const defaultDebugPort = 9222
defaultDebugPort == 9222

\* for i := 0; i < 10; i++
LaunchProbes == 10

\* lib.IsChromeRunningOnPort: the endpoint of the port answers.
IsChromeRunningOnPort(state, port) == state[port] \in {"up", "closing"}

\* lib.WriteInstanceMetadata: the record becomes the file of its port.  io is
\* "ok", "failed" (an error, nothing written) or "partial" (an error, the
\* file is left unparseable).
WriteInstanceMetadata(reg, info, io) ==
    IF io = "ok" THEN [registry |-> [reg EXCEPT ![info.Port] = info], err |-> FALSE]
    ELSE IF io = "partial"
    THEN [registry |-> [reg EXCEPT ![info.Port] = Corrupt], err |-> TRUE]
    ELSE [registry |-> reg, err |-> TRUE]

\* lib.RemoveInstanceMetadata: the file of the port is deleted, or an error
\* is returned and the file stays.
RemoveInstanceMetadata(reg, port, io) ==
    IF io = "ok" THEN [registry |-> [reg EXCEPT ![port] = NoRecord], err |-> FALSE]
    ELSE [registry |-> reg, err |-> TRUE]

\* lib.ListInstances: the records of the files that parse.
ListInstances(reg) ==
    {reg[p] : p \in {q \in Ports : reg[q] \notin {NoRecord, Corrupt}}}

\* cmd.Process.Pid of the browser process an invocation starts: the
\* processes of two invocations in flight differ.
Pid(c) == IF c = "a" THEN 1 ELSE 2

regOther == <<targets, osEnv, globalT, call, chromeUp, inv, mon,
              proc, wait, cap, step, shot>>

InitReg ==
    /\ targets = <<>>
    /\ osEnv = <<>>
    /\ globalT = <<>>
    /\ call = NoCall
    /\ chromeUp = TRUE
    /\ inv = IdleInv
    /\ mon = IdleMon
    /\ registry = NoRecords
    /\ ports = PortsDown
    /\ cli = IdleClis
    /\ proc = IdleProc
    /\ wait = IdleWait
    /\ cap = IdleCap
    /\ step = IdleStep
    /\ shot = IdleShot

\* A launch that starts its process without the probe of line 70.
LaunchStartNoProbe(c, port, dir, found, started) ==
    /\ cli[c].pc = "idle"
    /\ LET me == [IdleCli EXCEPT !.cmd = "launch", !.port = port, !.userDataDir = dir]
       IN  IF ~found \/ ~started
           THEN /\ cli' = [cli EXCEPT ![c] = Exited("launch", port, 1)]
                /\ UNCHANGED ports
           ELSE /\ ports' = [ports EXCEPT ![port] = IF @ = "down" THEN "starting" ELSE @]
                /\ cli' = [cli EXCEPT ![c] = [me EXCEPT !.pc = "waiting", !.pid = Pid(c)]]
    /\ UNCHANGED registry
    /\ UNCHANGED regOther

\* launchChrome up to cmd.Start(): exit 0 when a browser already answers on
\* the port, exit 1 when findChrome finds none or the log file or the start
\* fails, else a process is started and the polling begins.
LaunchStart(c, port, dir, found, started) ==
    /\ cli[c].pc = "idle"
    /\ LET me == [IdleCli EXCEPT !.cmd = "launch", !.port = port, !.userDataDir = dir]
       IN  IF IsChromeRunningOnPort(ports, port)
           THEN /\ cli' = [cli EXCEPT ![c] = Exited("launch", port, 0)]
                /\ UNCHANGED ports
           ELSE IF ~found \/ ~started
           THEN /\ cli' = [cli EXCEPT ![c] = Exited("launch", port, 1)]
                /\ UNCHANGED ports
           ELSE /\ ports' = [ports EXCEPT ![port] = IF @ = "down" THEN "starting" ELSE @]
                /\ cli' = [cli EXCEPT ![c] = [me EXCEPT !.pc = "waiting", !.pid = Pid(c)]]
    /\ UNCHANGED registry
    /\ UNCHANGED regOther

\* A launch that writes its record after the last probe whatever it found.
LaunchProbeWritesAnyway(c) ==
    /\ cli[c].pc = "waiting"
    /\ cli[c].i < LaunchProbes
    /\ cli' = [cli EXCEPT ![c] =
                  IF IsChromeRunningOnPort(ports, cli[c].port) \/ cli[c].i + 1 = LaunchProbes
                  THEN [@ EXCEPT !.i = @ + 1, !.pc = "writing"]
                  ELSE [@ EXCEPT !.i = @ + 1]]
    /\ UNCHANGED <<registry, ports>>
    /\ UNCHANGED regOther

\* One turn of the polling loop: sleep 500 ms, probe; on success go on to
\* write the metadata, after the tenth failure print the warning and return.
LaunchProbe(c) ==
    /\ cli[c].pc = "waiting"
    /\ cli[c].i < LaunchProbes
    /\ cli' = [cli EXCEPT ![c] =
                  IF IsChromeRunningOnPort(ports, cli[c].port)
                  THEN [@ EXCEPT !.i = @ + 1, !.pc = "writing"]
                  ELSE IF cli[c].i + 1 = LaunchProbes
                  THEN [Exited("launch", cli[c].port, 0) EXCEPT !.warned = TRUE]
                  ELSE [@ EXCEPT !.i = @ + 1]]
    /\ UNCHANGED <<registry, ports>>
    /\ UNCHANGED regOther

\* A launch that files its record under the default port.
LaunchWriteDefaultPort(c, io) ==
    /\ cli[c].pc = "writing"
    /\ LET info == InstanceInfo(defaultDebugPort, cli[c].userDataDir, cli[c].pid)
           res == WriteInstanceMetadata(registry, info, io)
       IN  /\ registry' = res.registry
           /\ cli' = [cli EXCEPT ![c] =
                          [Exited("launch", cli[c].port, 0) EXCEPT !.warned = res.err,
                                                            !.err = res.err]]
    /\ UNCHANGED ports
    /\ UNCHANGED regOther

\* A launch that leaves a record it finds for its port.
LaunchWriteKeepsExisting(c, io) ==
    /\ cli[c].pc = "writing"
    /\ LET info == InstanceInfo(cli[c].port, cli[c].userDataDir, cli[c].pid)
           res == IF registry[cli[c].port] # NoRecord
                  THEN [registry |-> registry, err |-> FALSE]
                  ELSE WriteInstanceMetadata(registry, info, io)
       IN  /\ registry' = res.registry
           /\ cli' = [cli EXCEPT ![c] =
                          [Exited("launch", cli[c].port, 0) EXCEPT !.warned = res.err,
                                                            !.err = res.err]]
    /\ UNCHANGED ports
    /\ UNCHANGED regOther

\* lib.WriteInstanceMetadata(info); an error is a warning; return.
LaunchWrite(c, io) ==
    /\ cli[c].pc = "writing"
    /\ LET info == InstanceInfo(cli[c].port, cli[c].userDataDir, cli[c].pid)
           res == WriteInstanceMetadata(registry, info, io)
       IN  /\ registry' = res.registry
           /\ cli' = [cli EXCEPT ![c] =
                          [Exited("launch", cli[c].port, 0) EXCEPT !.warned = res.err,
                                                            !.err = res.err]]
    /\ UNCHANGED ports
    /\ UNCHANGED regOther

\* A started browser begins to answer on its port.
EndpointUp(p) ==
    /\ ports[p] = "starting"
    /\ ports' = [ports EXCEPT ![p] = "up"]
    /\ UNCHANGED <<registry, cli>>
    /\ UNCHANGED regOther

\* The browser of a port ends: it has closed after Browser.close, or it
\* crashed, or it never came up.
EndpointDown(p) ==
    /\ ports[p] # "down"
    /\ ports' = [ports EXCEPT ![p] = "down"]
    /\ UNCHANGED <<registry, cli>>
    /\ UNCHANGED regOther

\* quitChrome up to its first probe: with no browser on the port it prints
\* that and exits 0.
QuitStart(c, port) ==
    /\ cli[c].pc = "idle"
    /\ LET me == [IdleCli EXCEPT !.cmd = "quit", !.port = port]
       IN  cli' = [cli EXCEPT ![c] =
                      IF ~IsChromeRunningOnPort(ports, port)
                      THEN Exited("quit", port, 0)
                      ELSE [me EXCEPT !.pc = "closing"]]
    /\ UNCHANGED <<registry, ports>>
    /\ UNCHANGED regOther

\* chromedp.Run(browserCtx, browser.Close()): the browser takes the command
\* and begins to close, or Run returns an error.
QuitClose(c, err) ==
    /\ cli[c].pc = "closing"
    /\ IF err \/ ~IsChromeRunningOnPort(ports, cli[c].port)
       THEN /\ cli' = [cli EXCEPT ![c] = [@ EXCEPT !.pc = "recheck"]]
            /\ UNCHANGED ports
       ELSE /\ cli' = [cli EXCEPT ![c] = [@ EXCEPT !.pc = "verify"]]
            /\ ports' = [ports EXCEPT ![cli[c].port] = "closing"]
    /\ UNCHANGED registry
    /\ UNCHANGED regOther

\* After the error: sleep 500 ms, probe; exit 1 when the browser answers.
QuitRecheck(c) ==
    /\ cli[c].pc = "recheck"
    /\ cli' = [cli EXCEPT ![c] =
                  IF IsChromeRunningOnPort(ports, cli[c].port)
                  THEN Exited("quit", cli[c].port, 1)
                  ELSE [@ EXCEPT !.pc = "verify"]]
    /\ UNCHANGED <<registry, ports>>
    /\ UNCHANGED regOther

\* A quit that goes on to the clean-up without its last probe.
QuitVerifySkipped(c) ==
    /\ cli[c].pc = "verify"
    /\ cli' = [cli EXCEPT ![c] = [@ EXCEPT !.pc = "removing"]]
    /\ UNCHANGED <<registry, ports>>
    /\ UNCHANGED regOther

\* sleep 500 ms, probe; a browser that still answers is a warning and
\* exit 1.
QuitVerify(c) ==
    /\ cli[c].pc = "verify"
    /\ cli' = [cli EXCEPT ![c] =
                  IF IsChromeRunningOnPort(ports, cli[c].port)
                  THEN [Exited("quit", cli[c].port, 1) EXCEPT !.warned = TRUE]
                  ELSE [@ EXCEPT !.pc = "removing"]]
    /\ UNCHANGED <<registry, ports>>
    /\ UNCHANGED regOther

\* _ = lib.RemoveInstanceMetadata(port); return.
QuitRemove(c, io) ==
    /\ cli[c].pc = "removing"
    /\ LET res == RemoveInstanceMetadata(registry, cli[c].port, io)
       IN  /\ registry' = res.registry
           /\ cli' = [cli EXCEPT ![c] =
                          [Exited("quit", cli[c].port, 0) EXCEPT !.err = res.err]]
    /\ UNCHANGED ports
    /\ UNCHANGED regOther

\* listInstances: lib.ListInstances(); an error is exit 1.
Instances(c, fails) ==
    /\ cli[c].pc = "idle"
    /\ cli' = [cli EXCEPT ![c] =
                  IF fails
                  THEN Exited("instances", 0, 1)
                  ELSE [Exited("instances", 0, 0) EXCEPT
                           !.listed = ListInstances(registry)]]
    /\ UNCHANGED <<registry, ports>>
    /\ UNCHANGED regOther

\* The invocation is over; the next one may start.
CliNext(c) ==
    /\ cli[c].pc = "exited"
    /\ cli' = [cli EXCEPT ![c] = IdleCli]
    /\ UNCHANGED <<registry, ports>>
    /\ UNCHANGED regOther

NextReg ==
    \/ \E c \in Clis, p \in Ports, d \in Dirs, found \in BOOLEAN, started \in BOOLEAN :
           LaunchStart(c, p, d, found, started)
    \/ \E c \in Clis : LaunchProbe(c)
    \/ \E c \in Clis, io \in {"ok", "failed", "partial"} : LaunchWrite(c, io)
    \/ \E p \in Ports : EndpointUp(p)
    \/ \E p \in Ports : EndpointDown(p)
    \/ \E c \in Clis, p \in Ports : QuitStart(c, p)
    \/ \E c \in Clis, err \in BOOLEAN : QuitClose(c, err)
    \/ \E c \in Clis : QuitRecheck(c)
    \/ \E c \in Clis : QuitVerify(c)
    \/ \E c \in Clis, io \in {"ok", "failed"} : QuitRemove(c, io)
    \/ \E c \in Clis, fails \in BOOLEAN : Instances(c, fails)
    \/ \E c \in Clis : CliNext(c)

SpecReg == InitReg /\ [][NextReg]_vars

\* ------------------------------------------------------------- main (cmd)

\* The longest argument list (os.Args[1:]) of the model.
MaxArgs == 3

\* lib.Commands: the names the blank imports of main register.
Commands ==
    { <<"c","l","i","c","k">>,
      <<"c","l","i","c","k","t","e","x","t">>,
      <<"c","l","i","c","k","x","y">>,
      <<"c","l","o","s","e">>,
      <<"c","o","n","s","o","l","e">>,
      <<"e","v","a","l">>,
      <<"f","i","l","l">>,
      <<"h","t","m","l">>,
      <<"i","n","s","t","a","n","c","e","s">>,
      <<"l","a","u","n","c","h">>,
      <<"l","i","s","t">>,
      <<"n","a","v","i","g","a","t","e">>,
      <<"n","e","t","w","o","r","k">>,
      <<"n","e","w","t","a","b">>,
      <<"q","u","i","t">>,
      <<"r","e","c","t">>,
      <<"s","c","r","e","e","n","s","h","o","t">>,
      <<"s","l","i","d","e","s","h","o","w">>,
      <<"s","t","e","p">>,
      <<"t","i","t","l","e">>,
      <<"t","y","p","e">>,
      <<"w","a","i","t">>,
      <<"w","a","i","t","f","o","r">> }

\* The lines usage() writes to standard error: the Fprintln calls of lines
\* 41-67 and one line per registered command.
usageHeaderLines == 27
usageLines == usageHeaderLines + Cardinality(Commands)

\* The arguments of the model.
TokH == <<"-","h">>
TokHelp == <<"-","-","h","e","l","p">>
TokP == <<"-","p">>
TokPort == <<"-","-","p","o","r","t">>
TokT == <<"-","t">>
TokTarget == <<"-","-","t","a","r","g","e","t">>
TokPortEqBig == <<"-","-","p","o","r","t","=","6","5","5","3","6">>
TokPEqEmpty == <<"-","p","=">>
TokTargetEqX == <<"-","-","t","a","r","g","e","t","=","x">>
TokTEqBlank == <<"-","t","="," ">>
Tok9223 == <<"9","2","2","3">>
TokZero == <<"0">>
TokTitle == <<"t","i","t","l","e">>
TokLaunch == <<"l","a","u","n","c","h">>
TokNope == <<"n","o","p","e">>
ArgTokens ==
    { TokH, TokP, TokT, TokPortEqBig, TokPEqEmpty, TokTargetEqX, TokTEqBlank,
      Tok9223, TokZero, TokTitle, TokLaunch, TokNope }

\* strings.TrimPrefix
TrimPrefix(s, prefix) ==
    IF HasPrefix(s, prefix) THEN SubSeq(s, Len(prefix) + 1, Len(s)) ELSE s

\* strconv.Atoi: an optional sign and decimal digits.  The arguments of the
\* model have fewer than ten digits, so its range error does not arise.
DecimalDigits == <<"0","1","2","3","4","5","6","7","8","9">>
Atoi(s) ==
    LET signed == s # <<>> /\ s[1] \in {"+", "-"}
        body == IF signed THEN Tail(s) ELSE s
        isDigit(c) == \E d \in 1..10 : DecimalDigits[d] = c
        digit(c) == (CHOOSE d \in 1..10 : DecimalDigits[d] = c) - 1
        val[i \in 0..Len(body)] ==
            IF i = 0 THEN 0 ELSE val[i - 1] * 10 + digit(body[i])
    IN  IF body = <<>> \/ \E i \in 1..Len(body) : ~isDigit(body[i])
        THEN [n |-> 0, err |-> TRUE]
        ELSE [n |-> IF s[1] = "-" THEN 0 - val[Len(body)] ELSE val[Len(body)],
              err |-> FALSE]

\* Prefixes main tests its arguments against.
PortEq == <<"-","-","p","o","r","t","=">>
PEq == <<"-","p","=">>
TargetEq == <<"-","-","t","a","r","g","e","t","=">>
TEq == <<"-","t","=">>

\* The loop of main over the global options (lines 114-159): what stopped it
\* ("help", a flag without its value, or "break" at the first other argument
\* or at the end), the arguments left and the values of port and target.
RECURSIVE parseGlobalOptions(_, _, _)
parseGlobalOptions(args, port, target) ==
    LET out(stop) == [stop |-> stop, args |-> args, port |-> port, target |-> target]
    IN  IF Len(args) = 0 THEN out("break")
        ELSE LET arg == args[1]
             IN  IF arg = TokH \/ arg = TokHelp THEN out("help")
                 ELSE IF arg = TokP \/ arg = TokPort
                 THEN IF Len(args) < 2 THEN out("--port requires a value")
                      ELSE parseGlobalOptions(SubSeq(args, 3, Len(args)), args[2], target)
                 ELSE IF HasPrefix(arg, PortEq)
                 THEN parseGlobalOptions(Tail(args), TrimPrefix(arg, PortEq), target)
                 ELSE IF HasPrefix(arg, PEq)
                 THEN parseGlobalOptions(Tail(args), TrimPrefix(arg, PEq), target)
                 ELSE IF arg = TokT \/ arg = TokTarget
                 THEN IF Len(args) < 2 THEN out("--target requires a value")
                      ELSE parseGlobalOptions(SubSeq(args, 3, Len(args)), port, args[2])
                 ELSE IF HasPrefix(arg, TargetEq)
                 THEN parseGlobalOptions(Tail(args), port, TrimPrefix(arg, TargetEq))
                 ELSE IF HasPrefix(arg, TEq)
                 THEN parseGlobalOptions(Tail(args), port, TrimPrefix(arg, TEq))
                 ELSE out("break")

\* One end of the process inside main: the exit status, the number of lines
\* written to standard error, and the statement that ended it.
MainExit(argv, status, lines, path) ==
    [pc |-> "exited", argv |-> argv, cmd |-> <<>>, CHROME_PORT |-> <<>>,
     CHROME_TARGET |-> <<>>, stderr |-> lines, exit |-> status, path |-> path]

\* A main that lets port 0 pass its range test.
mainPortZero(argv) ==
    IF Len(argv) < 1 THEN MainExit(argv, 1, usageLines, "usage")
    ELSE LET g == parseGlobalOptions(argv, <<>>, <<>>)
         IN  IF g.stop = "help" THEN MainExit(argv, 0, usageLines, "help")
             ELSE IF g.stop # "break" THEN MainExit(argv, 1, 1, g.stop)
             ELSE IF Len(g.args) = 0 THEN MainExit(argv, 1, usageLines, "usage")
             ELSE IF TrimSpace(g.port) # <<>>
                     /\ (Atoi(g.port).err \/ Atoi(g.port).n < 0 \/ Atoi(g.port).n >= 65536)
             THEN MainExit(argv, 1, 1, "invalid port")
             ELSE IF g.args[1] \notin Commands
             THEN MainExit(argv, 1, usageLines + 2, "unknown command")
             ELSE [pc |-> "running", argv |-> argv, cmd |-> g.args[1],
                   CHROME_PORT |-> IF TrimSpace(g.port) # <<>> THEN g.port ELSE <<>>,
                   CHROME_TARGET |-> IF TrimSpace(g.target) # <<>> THEN g.target ELSE <<>>,
                   stderr |-> 0, exit |-> 0, path |-> "fn"]

\* main, for os.Args[1:] = argv, up to the call fn() of the command: the
\* process has exited, or the command runs with CHROME_PORT and CHROME_TARGET
\* set from the options that were not blank (<<>> stands for "not set by
\* main").  os.Setenv does not fail for these names and values.
mainUpToCommand(argv) ==
    IF Len(argv) < 1 THEN MainExit(argv, 1, usageLines, "usage")
    ELSE LET g == parseGlobalOptions(argv, <<>>, <<>>)
         IN  IF g.stop = "help" THEN MainExit(argv, 0, usageLines, "help")
             ELSE IF g.stop # "break" THEN MainExit(argv, 1, 1, g.stop)
             ELSE IF Len(g.args) = 0 THEN MainExit(argv, 1, usageLines, "usage")
             ELSE IF TrimSpace(g.port) # <<>>
                     /\ (Atoi(g.port).err \/ Atoi(g.port).n <= 0 \/ Atoi(g.port).n >= 65536)
             THEN MainExit(argv, 1, 1, "invalid port")
             ELSE IF g.args[1] \notin Commands
             THEN MainExit(argv, 1, usageLines + 2, "unknown command")
             ELSE [pc |-> "running", argv |-> argv, cmd |-> g.args[1],
                   CHROME_PORT |-> IF TrimSpace(g.port) # <<>> THEN g.port ELSE <<>>,
                   CHROME_TARGET |-> IF TrimSpace(g.target) # <<>> THEN g.target ELSE <<>>,
                   stderr |-> 0, exit |-> 0, path |-> "fn"]

\* The argument lists of the model.
ArgLists == UNION {[1..n -> ArgTokens] : n \in 0..MaxArgs}

mainOther == <<targets, osEnv, globalT, call, chromeUp, inv, mon, registry, ports, cli,
               wait, cap, step, shot>>

InitMain ==
    /\ targets = <<>>
    /\ osEnv = <<>>
    /\ globalT = <<>>
    /\ call = NoCall
    /\ chromeUp = TRUE
    /\ inv = IdleInv
    /\ mon = IdleMon
    /\ registry = NoRecords
    /\ ports = PortsDown
    /\ cli = IdleClis
    /\ proc = IdleProc
    /\ wait = IdleWait
    /\ cap = IdleCap
    /\ step = IdleStep
    /\ shot = IdleShot

\* The binary is started with the arguments argv and main runs.
Start(argv) ==
    /\ proc.pc = "idle"
    /\ proc' = mainUpToCommand(argv)
    /\ UNCHANGED mainOther

\* The command returns from fn() and main returns: exit status 0.
CommandReturns ==
    /\ proc.pc = "running"
    /\ proc' = [proc EXCEPT !.pc = "exited", !.exit = 0, !.path = "return"]
    /\ UNCHANGED mainOther

\* The command reports an error: fmt.Fprintf(os.Stderr, "error: %v\n", err)
\* and os.Exit(1).
CommandFails ==
    /\ proc.pc = "running"
    /\ proc' = [proc EXCEPT !.pc = "exited", !.exit = 1, !.stderr = @ + 1,
                            !.path = "error"]
    /\ UNCHANGED mainOther

\* launchChrome finds a browser on the port: four lines on standard error
\* and os.Exit(0).
LaunchAlreadyRunning ==
    /\ proc.pc = "running"
    /\ proc.cmd = TokLaunch
    /\ proc' = [proc EXCEPT !.pc = "exited", !.exit = 0, !.stderr = @ + 4,
                            !.path = "already running"]
    /\ UNCHANGED mainOther

\* launchChrome returns after a warning (the browser did not answer in
\* time, or the metadata could not be written).
LaunchWarns ==
    /\ proc.pc = "running"
    /\ proc.cmd = TokLaunch
    /\ proc' = [proc EXCEPT !.pc = "exited", !.exit = 0, !.stderr = @ + 1,
                            !.path = "warning"]
    /\ UNCHANGED mainOther

\* The next run of the binary.
ProcNext ==
    /\ proc.pc = "exited"
    /\ proc' = IdleProc
    /\ UNCHANGED mainOther

NextMain ==
    \/ \E argv \in ArgLists : Start(argv)
    \/ CommandReturns
    \/ CommandFails
    \/ LaunchAlreadyRunning
    \/ LaunchWarns
    \/ ProcNext

SpecMain == InitMain /\ [][NextMain]_vars

\* ------------------------------------------------------------- step (cmd)

\* The number of step invocations of a behaviour.
MaxSteps == 3

stepOther == <<targets, osEnv, globalT, call, chromeUp, inv, mon, registry, ports, cli,
               proc, wait, cap, shot>>

InitStep ==
    /\ targets = <<>>
    /\ osEnv = <<>>
    /\ globalT = <<>>
    /\ call = NoCall
    /\ chromeUp = TRUE
    /\ inv = IdleInv
    /\ mon = IdleMon
    /\ registry = NoRecords
    /\ ports = PortsDown
    /\ cli = IdleClis
    /\ proc = IdleProc
    /\ wait = IdleWait
    /\ cap = IdleCap
    /\ step = IdleStep
    /\ shot = IdleShot

\* The end of a step process: its exit status and the call that failed.
StepExit(s, status, failedAt) ==
    [s EXCEPT !.pc = "exited", !.exit = status, !.failedAt = failedAt,
              !.stderr = IF status = 1 THEN @ + 1 ELSE @]

\* step up to runSubcommand: parseStep returns the parsed arguments, the
\* help request (exit 0) or an error (one line, exit 1).  Invocations are
\* numbered; the screenshot path of an invocation carries its time stamp.
StepParse(outcome) ==
    /\ step.pc = "idle"
    /\ step.n < MaxSteps
    /\ LET me == [step EXCEPT !.n = @ + 1, !.exit = 0, !.failedAt = "", !.stderr = 0]
       IN  step' = IF outcome = "help" THEN StepExit(me, 0, "")
                   ELSE IF outcome = "error" THEN StepExit(me, 1, "parse")
                   ELSE [me EXCEPT !.pc = "action"]
    /\ UNCHANGED stepOther

\* A step that goes on whatever the exit status of the action was.
RunActionIgnoresExit(ok) ==
    /\ step.pc = "action"
    /\ step' = [step EXCEPT !.pc = "path",
                            !.acted = IF ok THEN @ \cup {step.n} ELSE @]
    /\ UNCHANGED stepOther

\* runSubcommand(action, actionArgs): the binary runs the action as a child
\* process and cmd.Run() returns its failure, if any.
RunAction(ok) ==
    /\ step.pc = "action"
    /\ step' = IF ok THEN [step EXCEPT !.pc = "path", !.acted = @ \cup {step.n}]
               ELSE StepExit(step, 1, "action")
    /\ UNCHANGED stepOther

\* lib.PrepareScreenshotPath("", parsed.outputDir, label)
PreparePath(ok) ==
    /\ step.pc = "path"
    /\ step' = IF ok THEN [step EXCEPT !.pc = "capture"]
               ELSE StepExit(step, 1, "path")
    /\ UNCHANGED stepOther

\* lib.CaptureScreenshot(target, path): the file is written ("ok"), nothing
\* is written ("failed"), or os.WriteFile returns an error after it created
\* the file ("partial").
StepCapture(io) ==
    /\ step.pc = "capture"
    /\ step' = IF io = "ok"
               THEN [step EXCEPT !.pc = "remember", !.shots = @ \cup {step.n}]
               ELSE IF io = "partial"
               THEN [StepExit(step, 1, "screenshot") EXCEPT !.partials = @ \cup {step.n}]
               ELSE StepExit(step, 1, "screenshot")
    /\ UNCHANGED stepOther

\* lib.RememberStep(record): SaveStepRecord, then SaveLastStep unless the
\* first failed; an error is a warning on standard error.  The summary is
\* printed and step returns.
RememberStep(ioRecord, ioLast) ==
    /\ step.pc = "remember"
    /\ LET saved == ioRecord = "ok"
           last == saved /\ ioLast = "ok"
       IN  step' = [step EXCEPT
                       !.pc = "exited", !.exit = 0,
                       !.metas = IF saved THEN @ \cup {step.n} ELSE @,
                       !.lastStep = IF last THEN step.n ELSE @,
                       !.stderr = IF last THEN @ ELSE @ + 1]
    /\ UNCHANGED stepOther

\* The next invocation of step; the files stay.
StepNext ==
    /\ step.pc = "exited"
    /\ step' = [step EXCEPT !.pc = "idle"]
    /\ UNCHANGED stepOther

NextStep ==
    \/ \E o \in {"ok", "help", "error"} : StepParse(o)
    \/ \E ok \in BOOLEAN : RunAction(ok)
    \/ \E ok \in BOOLEAN : PreparePath(ok)
    \/ \E io \in {"ok", "failed", "partial"} : StepCapture(io)
    \/ \E r \in {"ok", "failed"}, l \in {"ok", "failed"} : RememberStep(r, l)
    \/ StepNext

SpecStep == InitStep /\ [][NextStep]_vars

\* ---------------------------------------------------- CaptureScreenshot (lib)

\* webSocketDebuggerUrl of the /json/list entry of a tab: the session
\* endpoint of that tab, or blank for a tab the browser lists without one.
DevtoolsPage == <<"w","s",":","/","/","p","a","g","e","/">>
WebSocketDebuggerURL(id, blank) ==
    IF blank THEN <<" ">> ELSE Append(DevtoolsPage, id)

\* The tab that answers on a session endpoint.
TabOfEndpoint(wsURL) == wsURL[Len(wsURL)]

\* The decoded /json/list with the field captureScreenshotRemote reads.
Endpoints(dir, blank) ==
    [i \in 1..Len(dir) |->
        [ID |-> dir[i].ID,
         WebSocketDebuggerURL |-> WebSocketDebuggerURL(dir[i].ID, dir[i].ID \in blank)]]

\* A lookup that takes the endpoint of the first entry when the id is gone.
wsURLOfFirstEntry(entries, targetID) ==
    LET scan[i \in 1..(Len(entries) + 1)] ==
            IF i = Len(entries) + 1
            THEN IF Len(entries) > 0
                 THEN TrimSpace(entries[1].WebSocketDebuggerURL) ELSE <<>>
            ELSE IF entries[i].ID = targetID
                 THEN TrimSpace(entries[i].WebSocketDebuggerURL)
                 ELSE scan[i + 1]
    IN  scan[1]

\* The loop of captureScreenshotRemote over the second fetch (lines
\* 192-198): wsURL, empty when no entry has the id.
wsURLOf(entries, targetID) ==
    LET scan[i \in 1..(Len(entries) + 1)] ==
            IF i = Len(entries) + 1 THEN <<>>
            ELSE IF entries[i].ID = targetID
                 THEN TrimSpace(entries[i].WebSocketDebuggerURL)
                 ELSE scan[i + 1]
    IN  scan[1]

ShotSelectorInputs == {<<>>, SelY, SelFooPadded}

\* The targets of this specification.
ShotUniverse ==
    { ChromeTarget("1", "page", UrlFoo),
      ChromeTarget("2", "page", UrlBar),
      ChromeTarget("3", "page", UrlNewTab) }

\* What fetchTargetInfos returns to the ResolveTarget calls of this
\* specification: an error, or the targets in the directory's order with at
\* most one of them attached.
ShotInfoResults(selector) ==
    IF ReachesInfos(selector, NilEnv, osEnv, FetchTargets(targets, FALSE))
    THEN {fetchTargetInfos(<<>>, TRUE)}
             \cup {fetchTargetInfos(
                       [i \in 1..Len(targets) |->
                           Info(targets[i].ID, targets[i].Type, i = a)],
                       FALSE) : a \in 0..Len(targets)}
    ELSE {fetchTargetInfos(<<>>, TRUE)}

shotOther == <<osEnv, globalT, call, chromeUp, inv, mon, registry, ports, cli,
               proc, wait, cap, step>>

InitShot ==
    /\ targets = <<>>
    /\ osEnv = <<>>
    /\ globalT = <<>>
    /\ call = NoCall
    /\ chromeUp = TRUE
    /\ inv = IdleInv
    /\ mon = IdleMon
    /\ registry = NoRecords
    /\ ports = PortsDown
    /\ cli = IdleClis
    /\ proc = IdleProc
    /\ wait = IdleWait
    /\ cap = IdleCap
    /\ step = IdleStep
    /\ shot = IdleShot

\* captureScreenshotRemote returns an error: CaptureScreenshot goes on to
\* its context path.
RemoteError(s) == [s EXCEPT !.pc = "fallback", !.remote = "error"]

\* CaptureScreenshot up to the second fetch: the directory of the path is
\* made, the probe answers, and captureScreenshotRemote resolves the target
\* on its first snapshot of the directory.
ShotResolve(selector, fails) ==
    /\ shot.pc = "idle"
    /\ \E infosRes \in (IF fails THEN {fetchTargetInfos(<<>>, TRUE)}
                        ELSE ShotInfoResults(selector)) :
           LET ret == ResolveTarget(selector, NilEnv, osEnv,
                                    FetchTargets(targets, fails), infosRes)
               me == [IdleShot EXCEPT !.selector = selector]
           IN  shot' = IF ret.err \/ ret.id = "" THEN RemoteError(me)
                       ELSE [me EXCEPT !.pc = "lookup", !.resolved = ret.id]
    /\ UNCHANGED targets
    /\ UNCHANGED shotOther

\* The second FetchTargets of captureScreenshotRemote and the search of the
\* resolved id in it.  listed and blank record what that snapshot held: an
\* entry for the resolved id, and one with a blank endpoint.
ShotLookup(blank, fails) ==
    /\ shot.pc = "lookup"
    /\ LET fetched == FetchTargets(Endpoints(targets, blank), fails)
           wsURL == wsURLOf(fetched.targets, shot.resolved)
           me == [shot EXCEPT
                     !.listed = ~fetched.err /\ shot.resolved \in DirectoryIds(targets),
                     !.blank = ~fetched.err /\ shot.resolved \in blank]
       IN  shot' = IF fetched.err \/ wsURL = <<>> THEN RemoteError(me)
                   ELSE [me EXCEPT !.pc = "dial", !.wsURL = wsURL]
    /\ UNCHANGED targets
    /\ UNCHANGED shotOther

\* The rest of captureScreenshotRemote: dial the endpoint, send the three
\* commands, read the answer to the third, write the file.  result is "ok",
\* "dial" (no connection: the tab is gone), "capture" (a send, the read or
\* the decoding fails) or "write" (os.WriteFile fails).
ShotRemote(result) ==
    /\ shot.pc = "dial"
    /\ result = "ok" => TabOfEndpoint(shot.wsURL) \in DirectoryIds(targets)
    /\ shot' = IF result = "ok"
               THEN [shot EXCEPT !.pc = "returned", !.remote = "ok",
                                 !.remoteCaptured = TabOfEndpoint(shot.wsURL),
                                 !.remoteWrote = TRUE,
                                 !.file = TabOfEndpoint(shot.wsURL)]
               ELSE IF result = "dial" THEN RemoteError(shot)
               ELSE [RemoteError(shot) EXCEPT
                        !.remoteCaptured = TabOfEndpoint(shot.wsURL)]
    /\ UNCHANGED targets
    /\ UNCHANGED shotOther

\* The context path of CaptureScreenshot (lines 161-175): SetupContext,
\* EnsureTargetContext, chromedp.Run with CaptureScreenshot, os.WriteFile.
\* A context without a target id has the browser open a tab.
ShotFallback(fails, ok) ==
    /\ shot.pc = "fallback"
    /\ \E infosRes \in (IF fails THEN {fetchTargetInfos(<<>>, TRUE)}
                        ELSE ShotInfoResults(<<>>)) :
           LET fetched == FetchTargets(targets, fails)
               ctx == SetupContextWithTimeout(
                          IsChromeRunning(chromeUp),
                          ResolveTarget(<<>>, NilEnv, osEnv, fetched, infosRes))
               got == EnsureTargetContext(
                          ctx, shot.selector, IsChromeRunning(chromeUp),
                          ResolveTarget(shot.selector, NilEnv, osEnv, fetched,
                                        fetchTargetInfos(<<>>, TRUE)))
               opens == ~got.err /\ got.ctx.targetID = ""
           IN  IF got.err \/ ~ok \/ (opens /\ Len(targets) >= MaxTargets)
               THEN /\ shot' = [shot EXCEPT !.pc = "returned", !.err = TRUE]
                    /\ UNCHANGED targets
               ELSE IF opens
               THEN /\ targets' = Append(targets,
                                         ChromeTarget(FreshId(targets), "page", AboutBlank))
                    /\ shot' = [shot EXCEPT !.pc = "returned",
                                            !.file = FreshId(targets)]
               ELSE /\ shot' = [shot EXCEPT !.pc = "returned",
                                            !.file = got.ctx.targetID]
                    /\ UNCHANGED targets
    /\ UNCHANGED shotOther

\* The next call of CaptureScreenshot, with another path.
ShotNext ==
    /\ shot.pc = "returned"
    /\ shot' = IdleShot
    /\ UNCHANGED targets
    /\ UNCHANGED shotOther

NextShot ==
    \/ \E t \in ShotUniverse : OpenTarget(t)
    \/ \E i \in 1..MaxTargets : CloseTarget(i)
    \/ \E s \in ShotSelectorInputs, f \in BOOLEAN : ShotResolve(s, f)
    \/ \E b \in {{}, {shot.resolved}}, f \in BOOLEAN : ShotLookup(b, f)
    \/ \E r \in {"ok", "dial", "capture", "write"} : ShotRemote(r)
    \/ \E f \in BOOLEAN, ok \in BOOLEAN : ShotFallback(f, ok)
    \/ ShotNext

SpecShot == InitShot /\ [][NextShot]_vars

\* ------------------------------------------- deadlines (lib, waitfor, wait)

\* The clock of a waitfor or wait command counts ticks of the 100 ms ticker
\* (time.NewTicker(100 * time.Millisecond)).
TicksPerSecond == 10

\* lib.DefaultTimeout and the default of --timeout, in seconds.
DefaultTimeout == 30
waitforDefaultTimeout == 10

\* time.Duration(n) * time.Second, in ticks.
Seconds(n) == n * TicksPerSecond

\* context.Background(), and a context with a deadline at an absolute time.
NoDeadline == [set |-> FALSE, at |-> 0]
DeadlineAt(t) == [set |-> TRUE, at |-> t]

\* A derived context that takes a deadline of its own whatever its parent has.
WithTimeoutFresh(parent, now, d) == DeadlineAt(now + d)

\* context.WithTimeout(parent, d) at time now: the deadline is now + d, or
\* the parent's when that one is earlier.
WithTimeout(parent, now, d) ==
    IF parent.set /\ parent.at <= now + d THEN parent ELSE DeadlineAt(now + d)

\* The first statement of SetupContextWithTimeout (lines 93-97), at time
\* now: WithTimeout for a positive timeout, WithCancel otherwise.
SetupDeadline(now, timeout) ==
    IF timeout > 0 THEN WithTimeout(NoDeadline, now, timeout) ELSE NoDeadline

\* <-ctx.Done() is ready.
Done(deadline, now) == deadline.set /\ now >= deadline.at

\* What the loop does with the result of one chromedp.Run: waitForVisible
\* continues on an error (line 86), waitForText returns it (line 254); both
\* return nil when the predicate holds and poll again otherwise.
afterEvaluateAlike(cmd, err, ok) ==
    IF err THEN "return err" ELSE IF ok THEN "return nil" ELSE "continue"

afterEvaluate(cmd, err, ok) ==
    IF err THEN (IF cmd = "waitfor" THEN "continue" ELSE "return err")
    ELSE IF ok THEN "return nil" ELSE "continue"

\* The commands of this section: title stands for the commands that make
\* one chromedp.Run through the context of SetupContext, attach for a
\* SetupContextWithTimeout(timeout) with the timeout of a console or
\* network command followed by one chromedp.Run.
WaitCommands == {"title", "attach", "waitfor", "wait"}

\* The timeouts given to SetupContextWithTimeout, in seconds: SetupContext
\* gives DefaultTimeout, follow mode gives 0.
AcquireTimeouts(cmd) ==
    IF cmd = "attach" THEN {-1, 0, 2} ELSE {DefaultTimeout}

\* The values of --timeout, in seconds.
OwnTimeouts == {-1, 0, 1, waitforDefaultTimeout, DefaultTimeout + 10}

\* The time the probe and the resolution of SetupContextWithTimeout and
\* EnsureTargetContext take, and the time one protocol call takes, in ticks.
SetupTicks == {0, 3}
EvalTicks == {0, 2}

\* The clock stops at MaxTime ticks; a protocol call the browser never
\* answers is due after that.
MaxTime == 320
Hang == MaxTime + 1

waitOther == <<targets, osEnv, globalT, call, chromeUp, inv, mon, registry, ports,
               cli, proc, cap, step, shot>>

InitWait ==
    /\ targets = <<>>
    /\ osEnv = <<>>
    /\ globalT = <<>>
    /\ call = NoCall
    /\ chromeUp = TRUE
    /\ inv = IdleInv
    /\ mon = IdleMon
    /\ registry = NoRecords
    /\ ports = PortsDown
    /\ cli = IdleClis
    /\ proc = IdleProc
    /\ wait = IdleWait
    /\ cap = IdleCap
    /\ step = IdleStep
    /\ shot = IdleShot

\* SetupContextWithTimeout is entered: the deadline is taken before the
\* probe and the resolution, which last `setup` ticks.
Acquire(cmd, timeout, setup) ==
    /\ wait.pc = "idle"
    /\ wait' = [wait EXCEPT !.pc = "acquiring",
                            !.cmd = cmd,
                            !.timeout = Seconds(timeout),
                            !.acquireAt = wait.now,
                            !.deadline = SetupDeadline(wait.now, Seconds(timeout)),
                            !.due = wait.now + setup]
    /\ UNCHANGED waitOther

\* SetupContextWithTimeout and EnsureTargetContext returned.
Acquired ==
    /\ wait.pc = "acquiring"
    /\ wait.now = wait.due
    /\ wait' = [wait EXCEPT !.pc = "acquired"]
    /\ UNCHANGED waitOther

\* One chromedp.Run through a context with the deadline `deadline`, started
\* at time now, that the browser answers after d ticks: the time it
\* returns, and whether it returns the error of the context.
RunDue(deadline, now, d) ==
    IF ~deadline.set THEN now + d
    ELSE IF now >= deadline.at THEN now
    ELSE IF now + d >= deadline.at THEN deadline.at
    ELSE now + d
RunAborted(deadline, now, d) == deadline.set /\ now + d >= deadline.at

\* title and attach: the one chromedp.Run of the command.
RunStart(d) ==
    /\ wait.pc = "acquired"
    /\ wait.cmd \in {"title", "attach"}
    /\ wait' = [wait EXCEPT !.pc = "run",
                            !.loop = wait.deadline,
                            !.started = wait.now,
                            !.due = RunDue(wait.deadline, wait.now, d),
                            !.aborted = RunAborted(wait.deadline, wait.now, d)]
    /\ UNCHANGED waitOther

\* The Run of title or attach returns: an error (the context's, or another
\* one) ends the command with status 1.
RunReturns(err) ==
    /\ wait.pc = "run"
    /\ wait.now = wait.due
    /\ wait' = [wait EXCEPT
                   !.pc = "returned",
                   !.result = IF wait.aborted THEN "context deadline exceeded"
                              ELSE IF err THEN "error" ELSE "nil",
                   !.exit = IF wait.aborted \/ err THEN 1 ELSE 0]
    /\ UNCHANGED waitOther

\* waitForVisible and waitForText up to the loop: the context derived with
\* context.WithTimeout(ctx, timeout) and the ticker.
LoopStart(own) ==
    /\ wait.pc = "acquired"
    /\ wait.cmd \in {"waitfor", "wait"}
    /\ wait' = [wait EXCEPT !.pc = "select",
                            !.own = Seconds(own),
                            !.loopAt = wait.now,
                            !.loop = WithTimeout(wait.deadline, wait.now, Seconds(own)),
                            !.tickReady = FALSE]
    /\ UNCHANGED waitOther

\* case <-ctx.Done(): the timeout error of the loop.
SelectDone ==
    /\ wait.pc = "select"
    /\ Done(wait.loop, wait.now)
    /\ wait' = [wait EXCEPT !.pc = "returned",
                            !.result = "timeout waiting",
                            !.exit = 1]
    /\ UNCHANGED waitOther

\* case <-ticker.C: the tick is taken from the channel and the predicate is
\* evaluated with chromedp.Run through the derived context.
SelectTick(d) ==
    /\ wait.pc = "select"
    /\ wait.tickReady
    /\ wait' = [wait EXCEPT !.pc = "eval",
                            !.tickReady = FALSE,
                            !.started = wait.now,
                            !.lastTick = wait.now,
                            !.due = RunDue(wait.loop, wait.now, d),
                            !.aborted = RunAborted(wait.loop, wait.now, d)]
    /\ UNCHANGED waitOther

\* The evaluation returns: with the error of the context when that one
\* expired, with another error, or with the value of the predicate.
EvalReturns(err) ==
    /\ wait.pc = "eval"
    /\ wait.now = wait.due
    /\ LET failed == wait.aborted \/ err
           then == afterEvaluate(wait.cmd, failed, wait.holds)
       IN  wait' = [wait EXCEPT
                       !.pc = IF then = "continue" THEN "select" ELSE "returned",
                       !.last = IF failed THEN "failed"
                                ELSE IF wait.holds THEN "true" ELSE "false",
                       !.result = IF then = "return nil" THEN "nil"
                                  ELSE IF then = "continue" THEN wait.result
                                  ELSE IF wait.aborted THEN "context deadline exceeded"
                                  ELSE "error",
                       !.exit = IF then = "return err" THEN 1 ELSE 0]
    /\ UNCHANGED waitOther

\* The page changes: the element appears or disappears.
PageChanges ==
    /\ wait.pc \in {"select", "eval"}
    /\ wait' = [wait EXCEPT !.holds = ~wait.holds]
    /\ UNCHANGED waitOther

\* 100 ms pass while the command is blocked: in the probe, in a protocol
\* call, or in a select with no case ready.  The ticker sends a tick; the
\* channel holds one, a tick that finds it full is dropped.
Tick ==
    /\ wait.pc \in {"acquiring", "run", "select", "eval"}
    /\ wait.now < MaxTime
    /\ wait.pc \in {"acquiring", "run", "eval"} => wait.now < wait.due
    /\ wait.pc = "select" => ~Done(wait.loop, wait.now) /\ ~wait.tickReady
    /\ wait' = [wait EXCEPT !.now = wait.now + 1,
                            !.tickReady = wait.pc \in {"select", "eval"}]
    /\ UNCHANGED waitOther

\* The next command.
WaitNext ==
    /\ wait.pc = "returned"
    /\ wait' = IdleWait
    /\ UNCHANGED waitOther

NextWait ==
    \/ \E cmd \in WaitCommands, s \in SetupTicks :
           \E t \in AcquireTimeouts(cmd) : Acquire(cmd, t, s)
    \/ Acquired
    \/ \E d \in EvalTicks \cup {Hang} : RunStart(d)
    \/ \E err \in BOOLEAN : RunReturns(err)
    \/ \E own \in OwnTimeouts : LoopStart(own)
    \/ SelectDone
    \/ \E d \in EvalTicks : SelectTick(d)
    \/ \E err \in BOOLEAN : EvalReturns(err)
    \/ PageChanges
    \/ Tick
    \/ WaitNext

SpecWait == InitWait /\ [][NextWait]_vars

\* The Go runtime lets time pass, completes a call that is due, and picks
\* among the ready cases of a select at random, so that a case that stays
\* ready is taken.
SpecWaitFair ==
    /\ SpecWait
    /\ WF_vars(Tick)
    /\ WF_vars(SelectDone)
    /\ WF_vars(\E d \in EvalTicks : SelectTick(d))
    /\ WF_vars(\E err \in BOOLEAN : EvalReturns(err))

\* ------------------------------------- capture timers (console, network)

\* time.Duration is an int64 count of nanoseconds.  An int64 is kept as its
\* four 16-bit limbs in two's complement, least significant first, so that
\* the arithmetic wraps as Go's does; the same operators on eight limbs give
\* the result without wrapping for the values at hand.
Int64Limbs == 4
WideLimbs == 8
Limb == 65536

\* A natural number below 2^31 in w limbs.
RECURSIVE FromNat(_, _)
FromNat(n, w) ==
    IF w = 0 THEN <<>> ELSE <<n % Limb>> \o FromNat(n \div Limb, w - 1)

\* x + y + carry from limb i on, cut to the width of x.
RECURSIVE AddFrom(_, _, _, _)
AddFrom(x, y, i, carry) ==
    IF i > Len(x) THEN <<>>
    ELSE LET s == x[i] + y[i] + carry
         IN  <<s % Limb>> \o AddFrom(x, y, i + 1, s \div Limb)
Add(x, y) == AddFrom(x, y, 1, 0)

\* x * k for 0 <= k < 2^15, cut to the width of x.
RECURSIVE MulSmallFrom(_, _, _, _)
MulSmallFrom(x, k, i, carry) ==
    IF i > Len(x) THEN <<>>
    ELSE LET s == x[i] * k + carry
         IN  <<s % Limb>> \o MulSmallFrom(x, k, i + 1, s \div Limb)
MulSmall(x, k) == MulSmallFrom(x, k, 1, 0)

\* -x.
Neg(x) ==
    Add([i \in 1..Len(x) |-> (Limb - 1) - x[i]], FromNat(1, Len(x)))

IsNeg(x) == x[Len(x)] >= Limb \div 2

\* x < y for signed x and y of one width.
Less(x, y) ==
    IF IsNeg(x) # IsNeg(y) THEN IsNeg(x)
    ELSE \E i \in 1..Len(x) :
            /\ x[i] < y[i]
            /\ \A j \in (i + 1)..Len(x) : x[j] = y[j]

\* The int64 x in eight limbs.
Wide(x) ==
    x \o [i \in 1..(WideLimbs - Len(x)) |-> IF IsNeg(x) THEN Limb - 1 ELSE 0]

\* strconv.ParseInt of a decimal argument that fits an int, in w limbs.
FromDecimal(s, w) ==
    LET body == IF s[1] = "-" THEN Tail(s) ELSE s
        digit(c) == (CHOOSE d \in 1..10 : DecimalDigits[d] = c) - 1
        val[i \in 0..Len(body)] ==
            IF i = 0 THEN FromNat(0, w)
            ELSE Add(MulSmall(val[i - 1], 10), FromNat(digit(body[i]), w))
    IN  IF s[1] = "-" THEN Neg(val[Len(body)]) ELSE val[Len(body)]

\* n * time.Second for a count of seconds n: three times a thousandfold.
TimesSecond(n) == MulSmall(MulSmall(MulSmall(n, 1000), 1000), 1000)

\* The slack console and network add to the duration, in seconds.
slackSeconds == 5

\* ctxTimeout of console (lines 56-64) and networkCmd (lines 55-63) for the
\* int `duration`, in arithmetic of w limbs.
ctxTimeout(follow, duration, w) ==
    IF follow THEN FromNat(0, w)
    ELSE LET d == Add(TimesSecond(duration),
                      TimesSecond(FromNat(slackSeconds, w)))
         IN  IF Less(TimesSecond(FromNat(DefaultTimeout, w)), d)
             THEN d ELSE TimesSecond(FromNat(DefaultTimeout, w))

\* The time after which time.After(time.Duration(args.Duration) *
\* time.Second) sends: at once for a duration that is not positive.
captureAfter(duration) ==
    LET d == TimesSecond(duration)
    IN  IF IsNeg(d) THEN FromNat(0, Len(d)) ELSE d

\* The values of --duration: the default, values around the one whose
\* timeout is DefaultTimeout, negative ones, and the largest ones.
DurationInputs ==
    {<<"5">>, <<"0">>, <<"2","4">>, <<"2","5">>, <<"2","6">>, <<"6","0">>,
     <<"-","1">>, <<"-","4","0">>,
     <<"9","2","2","3","3","7","2","0","3","1">>,
     <<"9","2","2","3","3","7","2","0","3","2">>,
     <<"9","2","2","3","3","7","2","0","3","6">>,
     <<"9","2","2","3","3","7","2","0","3","7">>}

\* The seconds from the entry of SetupContextWithTimeout to the time.After
\* of the command: the probe, the resolution, the attachment, the Enable
\* calls and --eval.
CapSetupSeconds == {0, 4, 6, 31}

capOther == <<targets, osEnv, globalT, call, chromeUp, inv, mon, registry, ports,
              cli, proc, wait, step, shot>>

InitCap ==
    /\ targets = <<>>
    /\ osEnv = <<>>
    /\ globalT = <<>>
    /\ call = NoCall
    /\ chromeUp = TRUE
    /\ inv = IdleInv
    /\ mon = IdleMon
    /\ registry = NoRecords
    /\ ports = PortsDown
    /\ cli = IdleClis
    /\ proc = IdleProc
    /\ wait = IdleWait
    /\ cap = IdleCap
    /\ step = IdleStep
    /\ shot = IdleShot

\* console or network up to SetupContextWithTimeout(ctxTimeout): the
\* context has the deadline ctxTimeout after this moment when ctxTimeout is
\* positive.
CapStart(cmd, follow, duration) ==
    /\ cap.pc = "idle"
    /\ LET t == ctxTimeout(follow, FromDecimal(duration, Int64Limbs), Int64Limbs)
       IN  cap' = [cap EXCEPT
                      !.pc = "setup",
                      !.cmd = cmd,
                      !.follow = follow,
                      !.duration = duration,
                      !.ctxTimeout = t,
                      !.hasDeadline = Less(FromNat(0, Int64Limbs), t)]
    /\ UNCHANGED capOther

\* The command up to its loop, `setup` seconds later: a call that fails, or
\* that the deadline of the context cuts, ends it with status 1; otherwise
\* follow mode reads the channel for ever and fixed-duration mode arms
\* time.After.
CapEnable(setup, ok) ==
    /\ cap.pc = "setup"
    /\ LET at == TimesSecond(FromNat(setup, Int64Limbs))
           cut == cap.hasDeadline /\ ~Less(at, cap.ctxTimeout)
       IN  IF cut \/ ~ok
           THEN cap' = [cap EXCEPT
                           !.pc = "returned",
                           !.exit = 1,
                           !.result = IF cut THEN "context deadline exceeded"
                                      ELSE "error"]
           ELSE IF cap.follow
           THEN cap' = [cap EXCEPT !.pc = "following", !.armedAt = at]
           ELSE cap' = [cap EXCEPT
                           !.pc = "capturing",
                           !.armedAt = at,
                           !.timerAt =
                               Add(at, captureAfter(
                                           FromDecimal(cap.duration, Int64Limbs)))]
    /\ UNCHANGED capOther

\* x <= y for two times since the start of the command, which are not
\* negative.
AtOrBefore(x, y) == x = y \/ Less(Wide(x \o <<0>>), Wide(y \o <<0>>))

\* The deadline of the context passes while the command waits for its
\* timer: the context is cancelled, the command stays in its select, which
\* does not read Done.
CapContextExpires ==
    /\ cap.pc = "capturing"
    /\ cap.hasDeadline
    /\ ~cap.expired
    /\ AtOrBefore(cap.ctxTimeout, cap.timerAt)
    /\ cap' = [cap EXCEPT !.expired = TRUE]
    /\ UNCHANGED capOther

\* case <-deadline: the command returns.
CapTimerFires ==
    /\ cap.pc = "capturing"
    /\ \/ ~cap.hasDeadline
       \/ cap.expired
       \/ AtOrBefore(cap.timerAt, cap.ctxTimeout)
    /\ cap' = [cap EXCEPT !.pc = "returned", !.exit = 0, !.result = "nil"]
    /\ UNCHANGED capOther

\* The next command; a command in follow mode ends when it is killed.
CapNext ==
    /\ cap.pc \in {"returned", "following"}
    /\ cap' = IdleCap
    /\ UNCHANGED capOther

NextCap ==
    \/ \E cmd \in {"console", "network"}, d \in DurationInputs :
           \E f \in BOOLEAN : CapStart(cmd, f, d)
    \/ \E s \in CapSetupSeconds, ok \in BOOLEAN : CapEnable(s, ok)
    \/ CapContextExpires
    \/ CapTimerFires
    \/ CapNext

SpecCap == InitCap /\ [][NextCap]_vars

\* ------------------------------------------------------------ properties

Returned == call.phase = "returned"
FetchedOk == Returned /\ ~call.fetched.err

\* A target that is a user-facing page: kind "page", no reserved scheme.
IsUserPage(t) ==
    /\ t.Type = "page"
    /\ ~HasPrefix(t.URL, ChromeScheme)
    /\ ~HasPrefix(t.URL, ChromeUntrustedScheme)

\* The positions of list T that hold user-facing pages, and the r-th of them.
UserPagePositions(T) == {i \in 1..Len(T) : IsUserPage(T[i])}
NthOf(S, r) == CHOOSE i \in S : Cardinality({j \in S : j <= i}) = r
Least(S) == CHOOSE i \in S : \A j \in S : i <= j

\* The selector string the three-tier priority rule yields for the call.
PrioritySelector ==
    IF TrimSpace(call.selector) # <<>> THEN TrimSpace(call.selector)
    ELSE IF ~call.env.isNil /\ TrimSpace(call.env.CHROME_TARGET) # <<>>
         THEN TrimSpace(call.env.CHROME_TARGET)
    ELSE TrimSpace(call.environ)

\* The positions of call.pages whose URL has prefix s, case-insensitively.
PrefixHits(s) ==
    {i \in 1..Len(call.pages) : HasPrefix(ToLower(call.pages[i].URL), ToLower(s))}

\* C1: with a selector argument that is not blank and a directory snapshot T,
\* ResolveTarget returns the id of the first element of filterPageTargets(T)
\* whose lower-cased URL starts with the lower-cased selector, and the empty
\* id when there is none; the id is empty or that of a filtered page.
C1_FirstPrefixMatch ==
    (FetchedOk /\ TrimSpace(call.selector) # <<>>) =>
        LET hits == PrefixHits(TrimSpace(call.selector))
        IN  /\ call.ret.id = IF hits = {} THEN "" ELSE call.pages[Least(hits)].ID
            /\ \/ call.ret.id = ""
               \/ \E i \in 1..Len(call.pages) : call.pages[i].ID = call.ret.id

\* Two filtered pages match the selector, the first of them is not the first
\* target of the directory, and its id is returned.
C1_Witness ==
    /\ FetchedOk
    /\ TrimSpace(call.selector) # <<>>
    /\ Cardinality(PrefixHits(TrimSpace(call.selector))) >= 2
    /\ call.fetched.targets[1].ID # call.ret.id
    /\ call.ret.id = call.pages[1].ID

\* C2: the selector ResolveTarget matches against (the one its reason
\* quotes) is the trimmed selector argument if not empty, else the trimmed
\* CHROME_TARGET entry of the env map if not empty, else the trimmed
\* CHROME_TARGET of the process environment; main only stores a global -t
\* value in the process environment, so a command's own -t value, passed as
\* the selector argument, wins over it.
C2_SelectorPriority ==
    /\ (TrimSpace(globalT) # <<>>) => (osEnv = globalT)
    /\ (FetchedOk /\ Len(call.pages) > 0) =>
          IF PrioritySelector # <<>>
          THEN /\ call.ret.reason.fmt \in {"matched selector %q",
                                           "no tab URL starts with %q. Available: %s"}
               /\ call.ret.reason.sel = PrioritySelector
          ELSE call.ret.reason.fmt \in {"preferred attached tab", "first page tab"}

\* selector "", override {CHROME_TARGET: "a"}, process environment "b":
\* resolution used "a".
C2_Witness ==
    /\ FetchedOk
    /\ Len(call.pages) > 0
    /\ call.selector = <<>>
    /\ call.env = EnvOf(SelA)
    /\ call.environ = SelB
    /\ call.ret.reason.sel = SelA

\* The positions of the richer enumeration that hold a target of kind page,
\* and those among them reported attached.
InfoPagePositions ==
    {i \in 1..Len(call.infosRes.infos) : call.infosRes.infos[i].Type = "page"}
InfoAttachedPositions ==
    {i \in InfoPagePositions : call.infosRes.infos[i].Attached}

\* The same, restricted to targets that are filtered pages of the plain
\* directory fetch of the call.
InfoUserPagePositions ==
    {i \in InfoPagePositions :
        \E j \in 1..Len(call.pages) :
            call.pages[j].ID = call.infosRes.infos[i].TargetID}
InfoUserAttachedPositions ==
    {i \in InfoUserPagePositions : call.infosRes.infos[i].Attached}

\* C3 as stated: with an empty resolved selector and a page target,
\* ResolveTarget returns the first page-like target of the richer enumeration
\* that is attached, else the first page-like target of that enumeration, and
\* the first filtered target of the plain fetch if the enumeration fails.
C3_AsStated ==
    (Returned /\ call.asked) =>
        IF call.infosRes.err THEN call.ret.id = call.pages[1].ID
        ELSE IF InfoAttachedPositions # {}
        THEN call.ret.id = call.infosRes.infos[Least(InfoAttachedPositions)].TargetID
        ELSE IF InfoPagePositions # {}
        THEN call.ret.id = call.infosRes.infos[Least(InfoPagePositions)].TargetID
        ELSE TRUE

\* C3 (amended): with an empty resolved selector and a page target,
\* ResolveTarget considers only the targets of the richer enumeration that have
\* kind page and are filtered pages of its plain directory fetch: it returns
\* the first of them that is attached, else the first of them; if the
\* enumeration fails or holds none of them, it returns the first filtered
\* target of the plain fetch.
C3_PreferredAmongFilteredPages ==
    (Returned /\ call.asked) =>
        IF call.infosRes.err \/ InfoUserPagePositions = {}
        THEN call.ret.id = call.pages[1].ID
        ELSE IF InfoUserAttachedPositions # {}
        THEN call.ret.id = call.infosRes.infos[Least(InfoUserAttachedPositions)].TargetID
        ELSE call.ret.id = call.infosRes.infos[Least(InfoUserPagePositions)].TargetID

\* The enumeration lists an attached internal page before an attached
\* filtered page, and the filtered page is returned.
C3_Witness ==
    /\ Returned /\ call.asked /\ ~call.infosRes.err
    /\ InfoUserAttachedPositions # {}
    /\ Least(InfoAttachedPositions) < Least(InfoUserAttachedPositions)
    /\ call.ret.id = call.infosRes.infos[Least(InfoUserAttachedPositions)].TargetID
    /\ call.ret.id # call.pages[1].ID

\* C4: ResolveTarget returns an error exactly when FetchTargets failed; an
\* outcome without a target is an empty id with a reason that is not empty
\* and no error; a failed richer enumeration is not an error.
C4_ErrorOnlyFromFetch ==
    Returned =>
        /\ call.ret.err <=> call.fetched.err
        /\ call.ret.err => (call.ret.id = "" /\ call.ret.reason = NoReason)
        /\ (~call.ret.err /\ call.ret.id = "") => call.ret.reason.fmt # ""
        /\ (call.asked /\ call.infosRes.err) => (~call.ret.err /\ call.ret.id # "")

\* The richer enumeration failed and the call returned a target, no error.
C4_Witness ==
    /\ Returned /\ call.asked /\ call.infosRes.err
    /\ ~call.ret.err
    /\ call.ret.id = call.pages[1].ID

\* C5: when no target of the directory is left after filtering,
\* ResolveTarget("", nil) returns the empty id, the reason "no page targets"
\* and no error, whatever CHROME_TARGET holds in the process environment.
C5_NoPageTargets ==
    (FetchedOk /\ Len(call.pages) = 0 /\ call.selector = <<>> /\ call.env.isNil) =>
        call.ret = Ret("", Reason("no page targets", <<>>, <<>>), FALSE)

\* The directory holds targets, none of them a filtered page, and the
\* process environment names a selector.
C5_Witness ==
    /\ FetchedOk /\ Len(call.pages) = 0 /\ call.selector = <<>> /\ call.env.isNil
    /\ Len(call.fetched.targets) > 0
    /\ TrimSpace(call.environ) # <<>>
    /\ call.ret.reason.fmt = "no page targets"

\* C6: with a resolved selector that is not empty, at least one filtered page
\* and no filtered page whose URL has the selector as case-insensitive
\* prefix, ResolveTarget returns the empty id and a reason whose list is the
\* URLs of the user-facing pages of the directory, one entry each, in
\* directory order, and nothing else.
C6_NoMatchListsCandidates ==
    (FetchedOk /\ PrioritySelector # <<>> /\ Len(call.pages) > 0
       /\ PrefixHits(PrioritySelector) = {}) =>
        LET T == call.fetched.targets
            keep == UserPagePositions(T)
        IN  /\ call.ret.id = ""
            /\ ~call.ret.err
            /\ call.ret.reason.fmt = "no tab URL starts with %q. Available: %s"
            /\ Len(call.ret.reason.avail) = Cardinality(keep)
            /\ \A r \in 1..Cardinality(keep) :
                   call.ret.reason.avail[r] = T[NthOf(keep, r)].URL

\* Two candidates are listed and a filtered-out target stood before them or
\* between them.
C6_Witness ==
    /\ FetchedOk /\ PrioritySelector # <<>>
    /\ PrefixHits(PrioritySelector) = {}
    /\ Len(call.ret.reason.avail) = 2
    /\ Len(call.fetched.targets) = 3
    /\ ~IsUserPage(call.fetched.targets[2])
    /\ call.ret.id = ""

\* C7: every element filterPageTargets returns has kind "page" and a URL
\* that starts with neither chrome:// nor chrome-untrusted://, and every
\* input element of kind "page" without such a prefix is returned.
C7_FilterSoundAndComplete ==
    FetchedOk =>
        /\ \A i \in 1..Len(call.pages) :
               /\ call.pages[i].Type = "page"
               /\ ~HasPrefix(call.pages[i].URL, ChromeScheme)
               /\ ~HasPrefix(call.pages[i].URL, ChromeUntrustedScheme)
        /\ \A j \in 1..Len(call.fetched.targets) :
               IsUserPage(call.fetched.targets[j]) =>
                   \E i \in 1..Len(call.pages) : call.pages[i] = call.fetched.targets[j]

\* The input held a chrome-untrusted:// page, a worker and an extension
\* page; only the extension page was returned.
C7_Witness ==
    /\ FetchedOk
    /\ Len(call.fetched.targets) = 3
    /\ \E i \in 1..3 : call.fetched.targets[i].URL = UrlUntrusted
    /\ \E i \in 1..3 : call.fetched.targets[i].Type = "service_worker"
    /\ Len(call.pages) = 1
    /\ call.pages[1].URL = UrlExtension

\* C8: filterPageTargets applied to its own result returns that result.
C8_FilterIdempotent ==
    FetchedOk => filterPageTargets(call.pages) = call.pages

\* The filter dropped a target and kept two.
C8_Witness ==
    /\ FetchedOk
    /\ Len(call.fetched.targets) = 3
    /\ Len(call.pages) = 2
    /\ filterPageTargets(call.pages) = call.pages

\* C9: the result of filterPageTargets is a subsequence of its input (kept
\* targets keep the relative order of the directory fetch), and the target
\* resolution falls back to is the first kept one in directory order.
C9_FilterStable ==
    FetchedOk =>
        LET T == call.fetched.targets
            P == call.pages
        IN  /\ \E f \in [1..Len(P) -> 1..Len(T)] :
                   /\ \A i \in 1..Len(P) : T[f[i]] = P[i]
                   /\ \A i, j \in 1..Len(P) : i < j => f[i] < f[j]
            /\ call.ret.reason.fmt = "first page tab" =>
                   call.ret.id = T[Least(UserPagePositions(T))].ID

\* Two targets were kept around a dropped one, in the order of the
\* directory.
C9_Witness ==
    /\ FetchedOk
    /\ Len(call.fetched.targets) = 3
    /\ Len(call.pages) = 2
    /\ call.pages[1] = call.fetched.targets[1]
    /\ call.pages[2] = call.fetched.targets[3]

\* The contexts of the invocation that name a target.
BoundTargets ==
    {c.targetID : c \in {x \in {inv.ctx, inv.targetCtx} : x.targetID # ""}}

OperatedAndReleased ==
    /\ inv.ctx.mode = "remote"
    /\ inv.targetCtx.Target # ""
    /\ inv.cancels >= 1

\* The invocation named a tab: its ResolveTarget("", nil) call returned an id,
\* or its own selector is not blank.
NamedTarget ==
    inv.resolved # "" \/ TrimSpace(inv.selector) # <<>>

ExecAllocations ==
    IF inv.pc = "idle" THEN 0
    ELSE IF inv.ctx.mode = "launched" THEN 1 ELSE 0

\* C12: a call of SetupContextWithTimeout made while the probe finds no
\* browser on the debugging port creates exactly one launched-mode
\* allocation, a call made while the probe finds one creates none; a browser
\* process of the invocation's own exists only under such an allocation.
C12_OneAllocationPerLaunchedCall ==
    inv.pc # "idle" =>
        /\ ExecAllocations = (IF IsChromeRunning(chromeUp) THEN 0 ELSE 1)
        /\ inv.ctx.mode = (IF IsChromeRunning(chromeUp) THEN "remote" ELSE "launched")
        /\ inv.headless => ExecAllocations = 1

\* A command ran on the browser its own allocation started, no browser being
\* on the debugging port.
C12_Witness ==
    /\ inv.pc = "ran"
    /\ ~chromeUp
    /\ ExecAllocations = 1
    /\ inv.headless

\* The invocation holds the context its command works on, in remote mode.
AcquiredRemote ==
    /\ inv.ctx.mode = "remote"
    /\ inv.targetCtx # NoContext

\* The id the resolution of the caller's selector yielded: that of
\* EnsureTargetContext's ResolveTarget(sel, nil) when the selector is not
\* blank, that of SetupContextWithTimeout's ResolveTarget("", nil) otherwise.
Resolution ==
    IF TrimSpace(inv.selector) # <<>> THEN inv.selResolved ELSE inv.resolved

\* C13: when the probe finds the browser, the context a command gets is a
\* remote-mode one, bound to the target its selector resolves to whenever
\* that id is not empty, and unbound only when the resolution yielded the
\* empty id.  For a selector that is not blank the id is the first filtered
\* page whose URL it prefixes.
C13_BoundToResolution ==
    AcquiredRemote =>
        /\ inv.targetCtx.mode = "remote"
        /\ Resolution # "" => inv.targetCtx.targetID = Resolution
        /\ inv.targetCtx.targetID = "" => Resolution = ""
        /\ TrimSpace(inv.selector) # <<>> =>
               inv.targetCtx.targetID =
                   matchTargetBySelector(filterPageTargets(targets),
                                         TrimSpace(inv.selector))

\* The command's selector resolved to another tab than the one
\* SetupContextWithTimeout bound, and the command ran on it.
C13_Witness ==
    /\ AcquiredRemote
    /\ inv.pc = "ran"
    /\ inv.ctx.targetID # ""
    /\ inv.targetCtx.targetID # ""
    /\ inv.targetCtx.targetID # inv.ctx.targetID
    /\ inv.targetCtx.Target = Resolution

C15_ListenerNeverBlocks ==
    /\ [](Len(mon.messages) <= QueueCapacity /\ mon.listener = "ready")
    /\ [][mon'.arrived = mon.arrived + 1 =>
             IF Len(mon.messages) = QueueCapacity
             THEN /\ mon'.messages = mon.messages
                  /\ mon'.accepted = mon.accepted
                  /\ mon'.printed = mon.printed
                  /\ mon'.pc = mon.pc
             ELSE mon'.messages = Append(mon.messages, mon'.arrived)]_vars

\* More events arrived than the channel holds before the loop started, the
\* surplus was discarded, and the loop has printed since.
C15_Witness ==
    /\ mon.pc = "draining"
    /\ mon.arrived > QueueCapacity
    /\ Len(mon.accepted) < mon.arrived
    /\ mon.printed # <<>>
    /\ Len(mon.messages) = QueueCapacity - 1

\* C16: in fixed-duration mode, once the deadline timer has fired the command
\* returns, whatever events arrive or wait in the channel, unless the process
\* is ended from outside first; in follow mode the loop is left only by the
\* process being ended from outside, and the command never returns.
C16_DeadlineReturnsFollowRuns ==
    /\ (~mon.follow /\ mon.deadline = "fired") ~> (mon.pc \in {"returned", "killed"})
    /\ [][(mon.follow /\ mon.pc = "draining") =>
             mon'.pc \in {"draining", "killed"}]_vars
    /\ [](mon.follow => (mon.pc # "returned" /\ mon.deadline = "unset"))

\* The command returned on its deadline while events it had not printed were
\* still in the channel.
C16_Witness ==
    /\ ~mon.follow
    /\ mon.pc = "returned"
    /\ mon.deadline = "fired"
    /\ mon.messages # <<>>
    /\ mon.printed # <<>>

C18_WriteOnlyAfterProbe ==
    /\ [](\A c \in Clis :
             /\ cli[c].i <= LaunchProbes
             /\ cli[c].pc = "writing" => (cli[c].i >= 1 /\ cli[c].cmd = "launch"))
    /\ [][\A c \in Clis :
             /\ (cli[c].pc # "writing" /\ cli'[c].pc = "writing") =>
                    /\ cli[c].pc = "waiting"
                    /\ IsChromeRunningOnPort(ports, cli[c].port)
                    /\ cli'[c].i = cli[c].i + 1
             /\ (cli[c].pc = "waiting" /\ cli'[c].pc = "waiting") =>
                    (cli'[c].i = cli[c].i \/
                        (cli'[c].i = cli[c].i + 1
                           /\ ~IsChromeRunningOnPort(ports, cli[c].port)))
             /\ (cli[c].pc = "waiting" /\ cli'[c].pc = "exited") =>
                    /\ cli[c].i = LaunchProbes - 1
                    /\ ~IsChromeRunningOnPort(ports, cli[c].port)
                    /\ cli'[c].warned /\ cli'[c].exit = 0
                    /\ registry' = registry
             /\ cli[c].pc = "writing" => cli'[c].pc \in {"writing", "exited"}
             /\ \A p \in Ports :
                    (registry'[p] # registry[p] /\ registry'[p].PID = Pid(c)) =>
                        (cli[c].pc = "writing" /\ cli[c].port = p)]_vars

\* The tenth probe of a launch was the first to find the port answering.
C18_Witness ==
    /\ cli["a"].pc = "writing"
    /\ cli["a"].i = LaunchProbes
    /\ registry[cli["a"].port] = NoRecord

\* C19 as stated: when a quit invocation for a port ends with exit status 0
\* the registry holds no record for that port, and a record is never removed
\* while the endpoint of its port answers.
C19_AsStated ==
    [][/\ \A c \in Clis :
             (cli[c].pc # "exited" /\ cli'[c].pc = "exited"
                /\ cli'[c].cmd = "quit" /\ cli'[c].exit = 0) =>
                 registry'[cli'[c].port] = NoRecord
       /\ \A p \in Ports :
             (registry[p] # NoRecord /\ registry'[p] = NoRecord) =>
                 ~IsChromeRunningOnPort(ports, p)]_vars

\* C19 (amended): a quit invocation that found the endpoint answering comes
\* to its clean-up only from a probe of its own that found the endpoint
\* silent; the clean-up is its last step, ends it with exit status 0 and,
\* when the removal returns no error, leaves no record for the port; records
\* are removed by that step only.  A quit that finds no browser on the port
\* ends with exit status 0 and leaves the registry as it is.
C19_QuitRemovesAfterSilentProbe ==
    [][\A c \in Clis :
          /\ (cli[c].pc # "removing" /\ cli'[c].pc = "removing") =>
                 /\ cli[c].pc = "verify"
                 /\ ~IsChromeRunningOnPort(ports, cli[c].port)
          /\ (cli[c].pc = "removing" /\ cli'[c].pc # "removing") =>
                 /\ cli'[c] = [Exited("quit", cli[c].port, 0) EXCEPT !.err = cli'[c].err]
                 /\ ~cli'[c].err => registry'[cli[c].port] = NoRecord
                 /\ cli'[c].err => registry' = registry
          /\ (cli[c].pc = "idle" /\ cli'[c].pc = "exited" /\ cli'[c].cmd = "quit") =>
                 /\ ~IsChromeRunningOnPort(ports, cli'[c].port)
                 /\ cli'[c].exit = 0
                 /\ registry' = registry
          /\ (cli[c].pc # "exited" /\ cli'[c].pc = "exited"
                 /\ cli'[c].cmd = "quit" /\ cli'[c].exit = 0) =>
                 cli[c].pc \in {"idle", "removing"}
          /\ \A p \in Ports :
                 (registry[p] # NoRecord /\ registry'[p] = NoRecord) =>
                     \E d \in Clis : cli[d].pc = "removing" /\ cli[d].port = p]_vars

\* A quit ended with exit status 0 on a port whose browser had gone by
\* itself: the record a launch wrote there is still in the registry.
C19_Witness ==
    /\ cli["a"] = Exited("quit", 9223, 0)
    /\ cli["b"].pc = "idle"
    /\ ports[9223] = "down"
    /\ registry[9223] = InstanceInfo(9223, "~/.chrome", 1)

FetchedUserPageIds ==
    {call.fetched.targets[i].ID : i \in UserPagePositions(call.fetched.targets)}

\* The positions of the richer enumeration that are reported attached and
\* are not user-facing pages of the plain fetch (another kind, or a page with
\* a reserved scheme).
InfoAttachedOutsiders ==
    {i \in 1..Len(call.infosRes.infos) :
        /\ call.infosRes.infos[i].Attached
        /\ call.infosRes.infos[i].TargetID \notin FetchedUserPageIds}

\* C26: whenever ResolveTarget returns an id that is not empty, whatever the
\* selector and whether the richer enumeration succeeded or failed, the id is
\* that of a target kept by filterPageTargets from the plain directory fetch
\* of the same call; an attached target of the richer enumeration that is not
\* such a filtered page is never the id returned.
C26_ReturnedIdIsFilteredPage ==
    (Returned /\ call.ret.id # "") =>
        /\ call.ret.id \in FetchedUserPageIds
        /\ \A i \in InfoAttachedOutsiders :
               call.ret.id # call.infosRes.infos[i].TargetID

\* The enumeration reports an attached service worker and an attached internal
\* page and no attached filtered page; a filtered page is returned.
C26_Witness ==
    /\ Returned /\ call.asked /\ ~call.infosRes.err
    /\ \E i \in InfoAttachedOutsiders : call.infosRes.infos[i].Type # "page"
    /\ \E i \in InfoAttachedOutsiders : call.infosRes.infos[i].Type = "page"
    /\ InfoUserAttachedPositions = {}
    /\ call.ret.id \in FetchedUserPageIds
    /\ call.fetched.targets[1].ID \notin FetchedUserPageIds

\* C27: in the monitoring commands the events printed so far are, at every
\* moment, a prefix of the events the listener has put into the channel: they
\* are printed in the order of their acceptance, none twice, and none that was
\* not accepted; the accepted events not yet printed are the channel's content.
C27_PrintedIsPrefixOfAccepted ==
    /\ Len(mon.printed) <= Len(mon.accepted)
    /\ mon.printed = SubSeq(mon.accepted, 1, Len(mon.printed))
    /\ \A i, j \in 1..Len(mon.printed) : i # j => mon.printed[i] # mon.printed[j]
    /\ mon.accepted = mon.printed \o mon.messages

\* An event was dropped on a full channel, a later one was accepted, and the
\* main routine has printed the accepted events across the gap.
C27_Witness ==
    /\ mon.pc = "draining"
    /\ mon.arrived > Len(mon.accepted)
    /\ Len(mon.printed) > QueueCapacity
    /\ mon.printed[Len(mon.printed)] > Len(mon.printed)

\* The step in which invocation c runs launchChrome up to cmd.Start(), the
\* step in which it starts a browser process, and the port it was given.
LaunchBegins(c) == cli[c].pc = "idle" /\ cli'[c].cmd = "launch"
LaunchSpawns(c) == LaunchBegins(c) /\ cli'[c].pc = "waiting"
NoLaunchInFlight(c) == \A d \in Clis \ {c} : cli[d].pc \in {"idle", "exited"}

\* C30 as stated: a launch starts a process only after its first probe found
\* the port unreachable, a launch whose probe finds it reachable starts
\* nothing, leaves the registry alone and exits 0, and launches made one
\* after the other on one port start at most one browser: none starts a
\* process while the process of an earlier launch is alive on the port.
C30_AsStated ==
    [][\A c \in Clis :
          /\ LaunchSpawns(c) => ~IsChromeRunningOnPort(ports, cli'[c].port)
          /\ (LaunchBegins(c) /\ IsChromeRunningOnPort(ports, cli'[c].port)) =>
                 /\ cli'[c].pc = "exited" /\ cli'[c].exit = 0
                 /\ registry' = registry /\ ports' = ports
          /\ (LaunchSpawns(c) /\ NoLaunchInFlight(c)) =>
                 ports[cli'[c].port] = "down"]_vars

\* C30 (amended): a launch starts a process only after its first probe found
\* the port unreachable; a launch whose probe finds the port reachable starts
\* no process, leaves every registry record as it is and exits 0.  A launch
\* whose probe fails starts a process whether or not an earlier launch has
\* started one that does not answer yet.
C30_SpawnOnlyWhenUnreachable ==
    [][\A c \in Clis :
          /\ LaunchSpawns(c) => ~IsChromeRunningOnPort(ports, cli'[c].port)
          /\ (LaunchBegins(c) /\ IsChromeRunningOnPort(ports, cli'[c].port)) =>
                 /\ cli'[c].pc = "exited" /\ cli'[c].exit = 0
                 /\ registry' = registry /\ ports' = ports
          /\ (LaunchBegins(c) /\ ~IsChromeRunningOnPort(ports, cli'[c].port)
                 /\ cli'[c].pc = "exited") => cli'[c].exit = 1]_vars

\* Invocation b has run launch on a port that answers and holds the record
\* of the browser invocation a started: b exited 0 without a warning and the
\* record is still a's.
C30_Witness ==
    \E p \in Ports :
        /\ cli["b"].pc = "exited" /\ cli["b"].cmd = "launch" /\ cli["b"].port = p
        /\ cli["b"].exit = 0 /\ ~cli["b"].warned
        /\ cli["a"].pc = "idle"
        /\ ports[p] = "up"
        /\ registry[p] \notin {NoRecord, Corrupt}
        /\ registry[p].PID = Pid("a")

\* The target prefix in force for the invocation: the command's own -t, else
\* CHROME_TARGET of the process (where main stores the global -t).
PrefixInForce == selectedSelector(inv.selector, NilEnv, osEnv)

\* The step in which the command's chromedp.Run performs its action, and the
\* tab the action is performed on.
ActionRuns == inv.pc = "ensured" /\ inv'.pc = "ran"
ActedOn == inv'.targetCtx.Target

\* C25: with a target prefix in force (the command's -t, the global -t or
\* CHROME_TARGET) and the remote browser reachable, the action is performed
\* only on a tab that was open before and whose URL starts with the prefix,
\* case-insensitively; when no page tab has the prefix no action is performed
\* and no tab is created.
C25_ActsOnlyOnPrefixedTab ==
    [][(ActionRuns /\ inv.ctx.mode = "remote" /\ PrefixInForce # <<>>) =>
          /\ targets' = targets
          /\ \E i \in 1..Len(targets) :
                 /\ targets[i].ID = ActedOn
                 /\ targets[i].Type = "page"
                 /\ HasPrefix(ToLower(targets[i].URL), ToLower(PrefixInForce))]_vars

\* The invocation has ended, and the port value the run was given when its
\* arguments are -p/--port, a value and a registered command.
ProcExited == proc.pc = "exited"
PortThenCommand ==
    /\ Len(proc.argv) = 3
    /\ proc.argv[1] \in {TokP, TokPort}
    /\ proc.argv[3] \in Commands
PortInRange(s) == ~Atoi(s).err /\ Atoi(s).n >= 1 /\ Atoi(s).n <= 65535

C24_StepOrder ==
    /\ step.shots \cup step.partials \subseteq step.acted
    /\ step.metas \subseteq step.shots
    /\ step.lastStep # 0 => step.lastStep \in step.metas
    /\ step.pc = "action" => step.n \notin step.acted
    /\ step.pc \in {"action", "path", "capture"} =>
           step.n \notin step.shots \cup step.metas /\ step.lastStep # step.n
    /\ step.pc = "remember" =>
           /\ step.n \in step.shots
           /\ step.n \notin step.metas /\ step.lastStep # step.n
    /\ (step.pc = "exited" /\ step.failedAt = "action") =>
           /\ step.exit = 1
           /\ step.n \notin step.shots \cup step.partials \cup step.metas
           /\ step.lastStep # step.n
    /\ (step.pc = "exited" /\ step.failedAt = "screenshot") =>
           /\ step.exit = 1
           /\ step.n \in step.acted
           /\ step.n \notin step.shots \cup step.metas
           /\ step.lastStep # step.n

\* After a step that persisted its record, a step whose action succeeded and
\* whose screenshot failed has ended with status 1; the last-step file is
\* still that of the earlier step.
C24_Witness ==
    /\ step.pc = "exited" /\ step.failedAt = "screenshot" /\ step.exit = 1
    /\ step.n = 2
    /\ step.acted = {1, 2}
    /\ step.metas = {1} /\ step.lastStep = 1

\* captureScreenshotRemote has made its second fetch.
LookedUp == shot.pc \in {"dial", "fallback", "returned"} /\ shot.resolved # ""

\* C29: captureScreenshotRemote resolves the target on one snapshot of the
\* directory and looks its endpoint up on a second, later one.  When the
\* second snapshot has no entry for the resolved id, or one with a blank
\* endpoint, it returns an error, has written no file and has captured no
\* tab; when it captures, the tab captured is the resolved one.
C29_RemoteCapturesResolvedTab ==
    /\ (LookedUp /\ (~shot.listed \/ shot.blank)) =>
           /\ shot.remote = "error"
           /\ ~shot.remoteWrote
           /\ shot.remoteCaptured = ""
    /\ shot.remoteCaptured # "" => shot.remoteCaptured = shot.resolved
    /\ shot.remote = "ok" =>
           /\ shot.listed /\ ~shot.blank
           /\ shot.remoteWrote
           /\ shot.remoteCaptured = shot.resolved
           /\ shot.file = shot.resolved
    /\ shot.remoteWrote => shot.remote = "ok"

\* The resolved tab was closed between the two fetches while another tab
\* stayed open; captureScreenshotRemote has returned its error.
C29_Witness ==
    /\ shot.pc = "fallback"
    /\ shot.resolved # ""
    /\ ~shot.listed
    /\ targets # <<>>
    /\ shot.remote = "error"

\* ------------------------------------------------- deadlines: C22 and C23

\* A protocol call of the command returns in this step.
CallReturns == wait.pc \in {"run", "eval"} /\ wait'.pc # wait.pc

\* The deadline of the acquired context has elapsed.
DeadlineElapsed == wait.deadline.set /\ wait.now >= wait.deadline.at

\* The deadline is the one fixed when SetupContextWithTimeout was entered.
DeadlineOfAcquisition ==
    wait.pc # "idle" =>
        IF wait.timeout > 0
        THEN wait.deadline = DeadlineAt(wait.acquireAt + wait.timeout)
        ELSE ~wait.deadline.set

\* The context the calls go through ends no later than the acquired one.
CallsInheritDeadline ==
    wait.pc \in {"run", "select", "eval"} /\ wait.deadline.set =>
        wait.loop.set /\ wait.loop.at <= wait.deadline.at

\* A call in flight does not outlast the deadline.
NoCallOutlastsDeadline ==
    wait.pc \in {"run", "eval"} /\ wait.deadline.set =>
        /\ wait.now <= wait.due
        /\ wait.due <= (IF wait.started > wait.deadline.at
                        THEN wait.started ELSE wait.deadline.at)
        /\ wait.due >= wait.deadline.at => wait.aborted

\* A command that returns once the deadline elapsed reports a timeout.
TimeoutObserved ==
    wait.pc = "returned" /\ DeadlineElapsed =>
        /\ wait.exit = 1
        /\ wait.result \in {"context deadline exceeded", "timeout waiting"}

\* Without a deadline no call is aborted.
NoDeadlineNoAbort ==
    wait.pc # "idle" /\ ~wait.deadline.set =>
        /\ ~wait.loop.set
        /\ ~wait.aborted
        /\ wait.result # "context deadline exceeded"

\* C22: a positive timeout given to SetupContextWithTimeout fixes one
\* absolute deadline when the acquisition starts and that deadline never
\* moves; the context every protocol call goes through, the acquired one or
\* one derived from it, ends no later; a call in flight when the deadline
\* elapses returns then with the error of the context, a call started after
\* it returns at once with that error, and the command that returns after
\* the deadline exits 1 with a timeout error; a timeout of zero or less
\* gives a context without a deadline, through which no call is aborted.
C22_DeadlineFixedAtAcquisition ==
    /\ [](/\ DeadlineOfAcquisition
          /\ CallsInheritDeadline
          /\ NoCallOutlastsDeadline
          /\ TimeoutObserved
          /\ NoDeadlineNoAbort)
    /\ [][/\ (wait.pc # "idle" /\ wait'.pc # "idle" =>
                 /\ wait'.deadline = wait.deadline
                 /\ wait'.acquireAt = wait.acquireAt)
          /\ (CallReturns /\ DeadlineElapsed =>
                 /\ wait.aborted
                 /\ wait.pc = "run" => wait'.result = "context deadline exceeded"
                 /\ wait.pc = "eval" => wait'.last = "failed")]_vars

\* waitfor --timeout 40 behind a slow acquisition: the evaluation in flight
\* at the deadline of SetupContext was aborted and the loop gave up then,
\* 30 s after the acquisition started.
C22_Witness ==
    /\ wait.pc = "returned"
    /\ wait.cmd = "waitfor"
    /\ wait.loopAt > wait.acquireAt
    /\ wait.loopAt + wait.own > wait.deadline.at
    /\ wait.now = wait.acquireAt + Seconds(DefaultTimeout)
    /\ wait.started < wait.now
    /\ wait.last = "failed"
    /\ wait.result = "timeout waiting"
    /\ wait.exit = 1

InLoop == wait.pc \in {"select", "eval"}

\* The earlier of the deadline of the acquired context and the loop's own.
LoopDeadline ==
    IF wait.deadline.set /\ wait.deadline.at <= wait.loopAt + wait.own
    THEN wait.deadline.at ELSE wait.loopAt + wait.own

\* The loop polls through a context that ends at LoopDeadline and is not
\* in the loop after it.
LoopBounded ==
    InLoop =>
        /\ wait.loop = DeadlineAt(LoopDeadline)
        /\ wait.now <= (IF LoopDeadline > wait.loopAt
                        THEN LoopDeadline ELSE wait.loopAt)

\* The loop returns nil only from an evaluation that found the predicate
\* true, and a timeout error only once LoopDeadline elapsed.
LoopResults ==
    wait.pc = "returned" /\ wait.cmd \in {"waitfor", "wait"} =>
        /\ wait.result = "nil" => wait.last = "true" /\ wait.exit = 0
        /\ wait.result = "timeout waiting" =>
               wait.now >= LoopDeadline /\ wait.exit = 1
        /\ wait.result \in {"error", "context deadline exceeded"} =>
               wait.cmd = "wait" /\ wait.last = "failed" /\ wait.exit = 1

\* One step of the loop: a tick taken, an evaluation returned, Done taken.
LoopSteps ==
    /\ (wait.pc = "select" /\ wait'.pc = "eval" =>
           /\ wait.tickReady
           /\ ~wait'.tickReady
           /\ wait.lastTick < wait.now)
    /\ (wait.pc = "eval" /\ wait'.pc # "eval" =>
           /\ wait'.last = "true" =>
                  wait'.pc = "returned" /\ wait'.result = "nil"
           /\ wait'.last = "false" => wait'.pc = "select"
           /\ wait'.last = "failed" /\ wait.cmd = "waitfor" =>
                  wait'.pc = "select"
           /\ wait'.last = "failed" /\ wait.cmd = "wait" =>
                  /\ wait'.pc = "returned"
                  /\ wait'.exit = 1
                  /\ wait'.result \in {"error", "context deadline exceeded"})
    /\ (wait.pc = "select" /\ wait'.pc = "returned" =>
           /\ wait.now >= LoopDeadline
           /\ wait'.result = "timeout waiting")

\* C23: the loops of waitForVisible and waitForText always return; an
\* evaluation starts only by taking a tick of the 100 ms ticker, so at most
\* one per tick; the loop returns nil at the first evaluation that finds
\* the predicate true and polls again after one that finds it false; it
\* returns its timeout error once the earlier of its own --timeout and the
\* deadline of the acquired context elapsed, and is never in the loop after
\* that; after a failed evaluation waitfor polls again and wait returns the
\* error.
C23_PollingTerminates ==
    /\ (InLoop ~> wait.pc = "returned")
    /\ [](LoopBounded /\ LoopResults)
    /\ [][LoopSteps]_vars

\* waitfor --timeout 1: an evaluation failed, the loop went on, and gave
\* up when its own timeout, the earlier deadline, elapsed.
C23_Witness ==
    /\ wait.pc = "returned"
    /\ wait.cmd = "waitfor"
    /\ wait.own > 0
    /\ wait.loopAt + wait.own < wait.deadline.at
    /\ wait.now = wait.loopAt + wait.own
    /\ wait.lastTick > wait.loopAt
    /\ wait.last = "failed"
    /\ wait.result = "timeout waiting"

\* ------------------------------------------------- capture timers: C28

\* max(30 s, duration + 5 s) for the duration of the command, in
\* nanoseconds, without wrapping.
MaxOfDefaultAndSlack ==
    ctxTimeout(FALSE, FromDecimal(cap.duration, WideLimbs), WideLimbs)

\* The timeout exceeds the capture duration by at least 5 s.
ExceedsBySlack ==
    ~Less(Wide(cap.ctxTimeout),
          Add(TimesSecond(FromDecimal(cap.duration, WideLimbs)),
              TimesSecond(FromNat(slackSeconds, WideLimbs))))

\* C28: in fixed-duration mode of console and network the timeout given to
\* SetupContextWithTimeout is max(30 s, duration + 5 s), at least 5 s more
\* than the capture duration, for every duration, and the capture timer
\* fires before the deadline of the context: the context neither cuts the
\* command before the timer is armed nor expires while the command waits
\* for the timer; in follow mode the timeout is 0 and the context has no
\* deadline.
C28_TimeoutExceedsDuration ==
    cap.pc # "idle" =>
        IF cap.follow
        THEN /\ cap.ctxTimeout = FromNat(0, Int64Limbs)
             /\ ~cap.hasDeadline
        ELSE /\ Wide(cap.ctxTimeout) = MaxOfDefaultAndSlack
             /\ ExceedsBySlack
             /\ cap.hasDeadline
             /\ ~cap.expired
             /\ cap.result # "context deadline exceeded"

====
